---- MODULE Spec2Model ----
(***************************************************************************)
(* Model of the variable-token resolution and multi-batch tabular assembly *)
(* pipeline of census-api-apps (server.py).                                *)
(*                                                                         *)
(* Python strings are modelled as sequences of one-character strings so    *)
(* that upper(), strip(), startswith(), endswith() and the code-point      *)
(* ordering used by sorted() are computed, not assumed.                    *)
(***************************************************************************)
EXTENDS Integers, Sequences, FiniteSets, Bags, TLC

VARIABLES
    \* the resolver call
    variables_meta,   \* catalog of the current call: a dict id -> label
    tokens,           \* token list handed to resolve_requested_variables
    include_moe,      \* the include-margin-of-error flag
    resolved,         \* the list returned by resolve_requested_variables
    \* the download request (payload of /api/download)
    years,            \* parse_years(...) of the payload
    geo,              \* "county" or "tract"
    tables,           \* the whitespace-separated table tokens
    format_type,      \* "zip" or "combined"
    calculations,     \* list of derived-column specs
    \* the remote data API
    census,           \* the published values: row -> variable id -> value
    \* position and locals of download / build_csv_for_year
    pc,               \* "idle", "validate", "meta", "fetch", "finish", "done"
    yi,               \* index into years of the year being validated / built
    bad_years,        \* download: years that failed validation
    batches,          \* build_csv_for_year: chunk(sorted(vars_all), 45)
    bi,               \* index of the next batch to request
    headers_all,      \* field names seen so far (<<>> stands for None)
    rows_index,       \* insertion-ordered dict: list of [key, rec]
    \* results
    artifacts,        \* what build_csv_for_year returned, per built year
    saved,            \* files written under csv-downloads
    response,         \* the HTTP response of download
    \* history of the requests sent and the answers received
    meta_requests,    \* years whose variables.json was requested, in order
    data_requests,    \* data requests: [year, batch, ok]
    validated,        \* validation per year: [year, meta, outcome]
    received,         \* rows received for the year being built: [batch, key, rec]
    \* the persisted catalog (acs_database.py)
    variables_table,  \* table `variables`: the set of its rows
    open_conns,       \* sqlite connections opened and not closed
    search_results,   \* what the last call returned, if it was search_variables
    searched,         \* the arguments of the last call, if it was search_variables
    lookup,           \* the last call and what it returned, if it was another
                      \* method of ACSDatabase
    refreshes,        \* the populate_from_api calls that stored a response
    \* the collectors (comprehensive_acs_collector.py,
    \* collect_2017_2020_acs_data.py)
    collector,        \* class of the collector that runs: "comprehensive",
                      \* "batch", or "none" before the first run
    api_keys,         \* BatchACSCollector.api_keys
    current_key_index,\* BatchACSCollector.current_key_index
    requests_made,    \* requests_made of the collector
    step,             \* where the run stands: "idle", "discover", "variables",
                      \* "batch", "finished", "raised"
    year_index,       \* the year of the run being collected
    group_tables,     \* the table ids discover_all_tables returned
    table_index,      \* the table being processed
    var_list,         \* collect_county_data: var_list
    batch_index,      \* collect_county_data: the batch of the loop
    all_data,         \* collect_county_data: all_data
    acs_data,         \* table acs_data of comprehensive_acs_data.db: a bag
                      \* of its rows without the id and collected_at columns
    sent,             \* the make_request calls of the run
    batch_log,        \* the batches of the collect_county_data call under way
    county_data,      \* what the last collect_county_data call that reached
                      \* its loop returned, and the batches it went through
    runs,             \* the collection runs started
    failures,         \* the requests that failed
    \* the payloads as they are read (server.py parse_years, ask_chatgpt)
    years_value,      \* parse_years: the value it is called with
    parsed_years,     \* parse_years: [out |-> the list returned], <<>>
                      \* before the call
    question,         \* ask_chatgpt: data['question']
    conversation_history, \* ask_chatgpt: the content of the messages of
                      \* data['conversation_history']
    chat              \* ask_chatgpt: what the handler made of the two,
                      \* <<>> before the call

resolver_vars == <<variables_meta, tokens, include_moe, resolved>>

request_vars == <<years, geo, tables, format_type, calculations, census>>

build_vars == <<batches, bi, headers_all, rows_index, received>>

pipeline_vars ==
    <<years, geo, tables, format_type, calculations, census, pc, yi, bad_years,
      batches, bi, headers_all, rows_index, artifacts, saved, response,
      meta_requests, data_requests, validated, received>>

store_vars ==
    <<variables_table, open_conns, search_results, searched, lookup, refreshes>>

collector_vars ==
    <<collector, api_keys, current_key_index, requests_made, step, year_index,
      group_tables, table_index, var_list, batch_index, all_data, acs_data,
      sent, batch_log, county_data, runs, failures>>

payload_vars == <<years_value, parsed_years, question, conversation_history, chat>>

vars == <<resolver_vars, pipeline_vars, store_vars, collector_vars, payload_vars>>

(***************************************************************************)
(* Bounds                                                                  *)
(***************************************************************************)
MaxTokens == 2        \* longest token list handed to the resolver
MaxYears == 2         \* most years in one download request
MaxRows == 2          \* most geography rows in one response
MaxCalcs == 2         \* most derived-column specs in one request
TableLines == 46      \* lines of table B01001 in the large catalog

(***************************************************************************)
(* Strings                                                                 *)
(***************************************************************************)
\* ASCII code points of the characters used by the model (Python compares
\* str by code point).
Code ==
    "\t" :> 9 @@ "\n" :> 10 @@ "\r" :> 13 @@ " " :> 32 @@ "!" :> 33 @@
    "\"" :> 34 @@ "%" :> 37 @@ "(" :> 40 @@ ")" :> 41 @@ "*" :> 42 @@ "+" :> 43 @@ "," :> 44 @@ "-" :> 45 @@
    "." :> 46 @@ "/" :> 47 @@ "0" :> 48 @@ "1" :> 49 @@ "2" :> 50 @@
    "3" :> 51 @@ "4" :> 52 @@ "5" :> 53 @@ "6" :> 54 @@ "7" :> 55 @@
    "8" :> 56 @@ "9" :> 57 @@ ":" :> 58 @@ ">" :> 62 @@ "?" :> 63 @@ "A" :> 65 @@
    "B" :> 66 @@ "C" :> 67 @@ "D" :> 68 @@ "E" :> 69 @@ "F" :> 70 @@
    "G" :> 71 @@ "H" :> 72 @@ "I" :> 73 @@ "J" :> 74 @@ "K" :> 75 @@
    "L" :> 76 @@ "M" :> 77 @@ "N" :> 78 @@ "O" :> 79 @@ "P" :> 80 @@
    "Q" :> 81 @@ "R" :> 82 @@ "S" :> 83 @@ "T" :> 84 @@ "U" :> 85 @@
    "V" :> 86 @@ "W" :> 87 @@ "X" :> 88 @@ "Y" :> 89 @@ "Z" :> 90 @@
    "[" :> 91 @@ "]" :> 93 @@
    "_" :> 95 @@ "a" :> 97 @@ "b" :> 98 @@ "c" :> 99 @@ "d" :> 100 @@
    "e" :> 101 @@ "f" :> 102 @@ "g" :> 103 @@ "h" :> 104 @@ "i" :> 105 @@
    "j" :> 106 @@ "k" :> 107 @@ "l" :> 108 @@ "m" :> 109 @@ "n" :> 110 @@
    "o" :> 111 @@ "p" :> 112 @@ "q" :> 113 @@ "r" :> 114 @@ "s" :> 115 @@
    "t" :> 116 @@ "u" :> 117 @@ "v" :> 118 @@ "w" :> 119 @@ "x" :> 120 @@
    "y" :> 121 @@ "z" :> 122 @@ "{" :> 123 @@ "}" :> 125

\* str.upper() on one character: a-z are shifted by 32, the rest is kept.
UpperChar(c) ==
    IF Code[c] >= 97 /\ Code[c] <= 122
    THEN CHOOSE u \in DOMAIN Code : Code[u] = Code[c] - 32
    ELSE c

upper(s) == [i \in 1..Len(s) |-> UpperChar(s[i])]

IsSpace(c) == c \in {" ", "\t", "\n", "\r"}

\* str.strip(): drop leading and trailing whitespace.
strip(s) ==
    IF \A i \in 1..Len(s) : IsSpace(s[i]) THEN <<>>
    ELSE SubSeq(s,
            CHOOSE i \in 1..Len(s) :
                ~IsSpace(s[i]) /\ \A j \in 1..(i - 1) : IsSpace(s[j]),
            CHOOSE i \in 1..Len(s) :
                ~IsSpace(s[i]) /\ \A j \in (i + 1)..Len(s) : IsSpace(s[j]))

\* str.rstrip(c): drop every trailing occurrence of the character c.
rstrip(s, c) ==
    LET keep == {i \in 1..Len(s) : s[i] # c}
    IN  IF keep = {} THEN <<>>
        ELSE SubSeq(s, 1, CHOOSE i \in keep : \A j \in keep : i >= j)

startswith(s, p) == Len(p) <= Len(s) /\ SubSeq(s, 1, Len(p)) = p

endswith(s, p) == Len(p) <= Len(s) /\ SubSeq(s, Len(s) - Len(p) + 1, Len(s)) = p

Contains(s, c) == \E i \in 1..Len(s) : s[i] = c

\* Python's str ordering: code points, left to right; a proper prefix is
\* smaller.
StrLess(a, b) ==
    LET n    == IF Len(a) < Len(b) THEN Len(a) ELSE Len(b)
        diff == {i \in 1..n : a[i] # b[i]}
    IN  IF diff = {} THEN Len(a) < Len(b)
        ELSE LET i == CHOOSE k \in diff : \A j \in diff : k <= j
             IN  Code[a[i]] < Code[b[i]]

Range(q) == {q[i] : i \in 1..Len(q)}

\* sorted(set(...)) of strings: each element once, ascending.
SortedSet(S) ==
    LET ranked == {<<Cardinality({y \in S : StrLess(y, x)}) + 1, x>> : x \in S}
    IN  [i \in 1..Cardinality(S) |-> (CHOOSE p \in ranked : p[1] = i)[2]]

(***************************************************************************)
(* Identifiers and tokens of the examples                                  *)
(***************************************************************************)
Digit(n) == CHOOSE c \in DOMAIN Code : Code[c] = 48 + n

\* a table line number as the catalog prints it: three digits
Line(n) == <<Digit(n \div 100), Digit((n \div 10) % 10), Digit(n % 10)>>

B01001 == <<"B", "0", "1", "0", "0", "1">>
B19013 == <<"B", "1", "9", "0", "1", "3">>
b01001 == <<"b", "0", "1", "0", "0", "1">>

VarId(table, n, suffix) == table \o <<"_">> \o Line(n) \o suffix

(***************************************************************************)
(* Token Resolver (server.py)                                              *)
(***************************************************************************)
\* variant: the margin-of-error ids are returned whatever the flag says
list_table_variables_any_suffix(meta, table_id, moe) ==
    LET tid == strip(upper(table_id))
    IN  SortedSet({v \in DOMAIN meta :
                      /\ startswith(v, tid \o <<"_">>)
                      /\ (endswith(v, <<"E">>) \/ endswith(v, <<"M">>))})

\* list_table_variables: every catalog id of the table ending in E (or M
\* when include_moe), sorted.
list_table_variables(meta, table_id, moe) ==
    LET tid == strip(upper(table_id))
    IN  SortedSet({v \in DOMAIN meta :
                      /\ startswith(v, tid \o <<"_">>)
                      /\ (endswith(v, <<"E">>) \/ (moe /\ endswith(v, <<"M">>)))})

\* variant: a bare table token expands to the whole table (the legacy rule)
TokenMatchesLegacy(meta, raw, moe) ==
    LET token == strip(upper(raw))
        e     == token \o <<"E">>
        m     == token \o <<"M">>
    IN  IF token = <<>> THEN <<>>
        ELSE IF endswith(token, <<"*">>)
        THEN list_table_variables(meta,
                 rstrip(SubSeq(token, 1, Len(token) - 1), "_"), moe)
        ELSE IF Contains(token, "_")
        THEN (IF e \in DOMAIN meta THEN <<e>> ELSE <<>>)
             \o (IF moe /\ m \in DOMAIN meta THEN <<m>> ELSE <<>>)
        ELSE list_table_variables(meta, token, moe)

\* variant: the token is matched as typed, without case folding
TokenMatchesNoUpper(meta, raw, moe) ==
    LET token == strip(raw)
        base  == IF Contains(token, "_") THEN token
                 ELSE token \o <<"_", "0", "0", "1">>
        e     == base \o <<"E">>
        m     == base \o <<"M">>
    IN  IF token = <<>> THEN <<>>
        ELSE IF endswith(token, <<"*">>)
        THEN list_table_variables(meta,
                 rstrip(SubSeq(token, 1, Len(token) - 1), "_"), moe)
        ELSE (IF e \in DOMAIN meta THEN <<e>> ELSE <<>>)
             \o (IF moe /\ m \in DOMAIN meta THEN <<m>> ELSE <<>>)

\* what one pass of the for-loop appends to `resolved` for the token raw
TokenMatches(meta, raw, moe) ==
    LET token == strip(upper(raw))
        base  == IF Contains(token, "_") THEN token
                 ELSE token \o <<"_", "0", "0", "1">>
        e     == base \o <<"E">>
        m     == base \o <<"M">>
    IN  IF token = <<>> THEN <<>>
        ELSE IF endswith(token, <<"*">>)
        THEN list_table_variables(meta,
                 rstrip(SubSeq(token, 1, Len(token) - 1), "_"), moe)
        ELSE (IF e \in DOMAIN meta THEN <<e>> ELSE <<>>)
             \o (IF moe /\ m \in DOMAIN meta THEN <<m>> ELSE <<>>)

\* the list `resolved` after the loop over tokens[1..n]
RECURSIVE ResolvedList(_, _, _, _)
ResolvedList(meta, toks, moe, n) ==
    IF n = 0 THEN <<>>
    ELSE ResolvedList(meta, toks, moe, n - 1) \o TokenMatches(meta, toks[n], moe)

resolve_unsorted(meta, toks, moe) == ResolvedList(meta, toks, moe, Len(toks))

resolve_requested_variables(meta, toks, moe) ==
    SortedSet(Range(ResolvedList(meta, toks, moe, Len(toks))))

(***************************************************************************)
(* Values of response cells and computed columns                           *)
(***************************************************************************)
\* A Python value held in a row: a str, None, an int or a float (a float is
\* kept as the reduced fraction n/d).
StrV(s) == [k |-> "str", s |-> s, n |-> 0, d |-> 1]

NoneV == [k |-> "none", s |-> <<>>, n |-> 0, d |-> 1]

IntV(i) == [k |-> "int", s |-> <<>>, n |-> i, d |-> 1]

Abs(i) == IF i < 0 THEN -i ELSE i

RECURSIVE GCD(_, _)
GCD(a, b) == IF b = 0 THEN a ELSE GCD(b, a % b)

FloatV(p, q) ==
    LET g == GCD(Abs(p), Abs(q))
        sgn == IF q < 0 THEN -1 ELSE 1
    IN  [k |-> "float", s |-> <<>>, n |-> sgn * (p \div g), d |-> sgn * (q \div g)]

\* truth value of a Python value (what `x or 0` tests)
Truthy(v) ==
    CASE v.k = "str"  -> v.s # <<>>
      [] v.k = "none" -> FALSE
      [] OTHER        -> v.n # 0

IsDigit(c) == Code[c] >= 48 /\ Code[c] <= 57

RECURSIVE DigitsValue(_, _)
DigitsValue(s, n) ==
    IF n = 0 THEN 0 ELSE 10 * DigitsValue(s, n - 1) + (Code[s[n]] - 48)

\* float(str): surrounding whitespace is dropped, an optional sign and
\* decimal digits are read; anything else raises ValueError (ok = FALSE).
\* The values of the model are integers in text form.
ParseFloat(s) ==
    LET t      == strip(s)
        signed == t # <<>> /\ (t[1] = "-" \/ t[1] = "+")
        digits == IF signed THEN SubSeq(t, 2, Len(t)) ELSE t
        okay   == digits # <<>> /\ \A i \in 1..Len(digits) : IsDigit(digits[i])
        mag    == IF okay THEN DigitsValue(digits, Len(digits)) ELSE 0
    IN  [ok |-> okay,
         n  |-> IF signed /\ t[1] = "-" THEN -mag ELSE mag,
         d  |-> 1]

\* float(v or 0)
Coerce(v) ==
    IF ~Truthy(v) THEN [ok |-> TRUE, n |-> 0, d |-> 1]
    ELSE IF v.k = "str" THEN ParseFloat(v.s)
    ELSE [ok |-> TRUE, n |-> v.n, d |-> v.d]

(***************************************************************************)
(* Field names                                                             *)
(***************************************************************************)
NAME   == <<"N", "A", "M", "E">>
state  == <<"s", "t", "a", "t", "e">>
county == <<"c", "o", "u", "n", "t", "y">>
tract  == <<"t", "r", "a", "c", "t">>
block_group == <<"b", "l", "o", "c", "k", " ", "g", "r", "o", "u", "p">>

GeoLevels == <<state, county, tract, block_group>>

\* [x for x in xs if keep(x)] for a set `keep`
RECURSIVE FilterIn(_, _)
FilterIn(xs, keep) ==
    IF xs = <<>> THEN <<>>
    ELSE (IF Head(xs) \in keep THEN <<Head(xs)>> ELSE <<>>) \o FilterIn(Tail(xs), keep)

(***************************************************************************)
(* Batch Fetcher (server.py, build_csv_for_year)                           *)
(***************************************************************************)
BatchSize == 45

Min(a, b) == IF a < b THEN a ELSE b

\* variant: every slice is one element longer, lst[i:i+n+1]
chunk_overlapping(lst, n) ==
    [b \in 1..((Len(lst) + n - 1) \div n) |->
        SubSeq(lst, (b - 1) * n + 1, Min(b * n + 1, Len(lst)))]

\* chunk(lst, n) = [lst[i:i+n] for i in range(0, len(lst), n)]
chunk(lst, n) ==
    [b \in 1..((Len(lst) + n - 1) \div n) |->
        SubSeq(lst, (b - 1) * n + 1, Min(b * n, Len(lst)))]

\* dict(zip(headers, row)): pairs up to the shorter length, a repeated
\* header keeps its last value
DictZip(headers, row) ==
    LET n == Min(Len(headers), Len(row))
    IN  [h \in {headers[i] : i \in 1..n} |->
            LET at == {i \in 1..n : headers[i] = h}
            IN  row[CHOOSE i \in at : \A j \in at : j <= i]]

\* rec.get(k, default)
Get(rec, k, default) == IF k \in DOMAIN rec THEN rec[k] ELSE default

\* d.update(rec)
Update(old, rec) ==
    [f \in DOMAIN old \cup DOMAIN rec |-> IF f \in DOMAIN rec THEN rec[f] ELSE old[f]]

\* headers_all after a response with the header row `headers`
\* (None is modelled as the empty list: a response always has headers)
RECURSIVE MergeHeaders(_, _)
MergeHeaders(all, headers) ==
    IF all = <<>> THEN headers
    ELSE IF headers = <<>> THEN all
    ELSE MergeHeaders(IF Head(headers) \in Range(all) THEN all
                      ELSE Append(all, Head(headers)), Tail(headers))

\* key = tuple(rec.get(k, "") for k in geo_keys)
GeoKey(rec, geo_keys) == [i \in 1..Len(geo_keys) |-> Get(rec, geo_keys[i], StrV(<<>>))]

\* variant: a row is always inserted, also when its key is already indexed
MergeRowAppend(index, key, rec) == Append(index, [key |-> key, rec |-> rec])

\* rows_index (an insertion-ordered dict, kept as a list of key/record
\* entries) after one row of a response
MergeRow(index, key, rec) ==
    IF \E i \in 1..Len(index) : index[i].key = key
    THEN [i \in 1..Len(index) |->
            IF index[i].key = key
            THEN [key |-> key, rec |-> Update(index[i].rec, rec)]
            ELSE index[i]]
    ELSE Append(index, [key |-> key, rec |-> rec])

\* rows_index after all rows of a response
RECURSIVE MergeRows(_, _, _)
MergeRows(index, headers, rows) ==
    IF rows = <<>> THEN index
    ELSE LET rec == DictZip(headers, Head(rows))
             key == GeoKey(rec, FilterIn(GeoLevels, Range(headers)))
         IN  MergeRows(MergeRow(index, key, rec), headers, Tail(rows))

(***************************************************************************)
(* Derived-Column Engine (server.py, build_csv_for_year)                   *)
(***************************************************************************)
\* Operators of a calculation: "div" is the division sign, "mul" the
\* multiplication sign, "add" is +, "sub" is the ASCII hyphen-minus; any
\* other text ("other") takes the final else branch.
Operators == {"div", "mul", "add", "sub", "other"}

\* variant: a zero denominator divides as if it were one
CalcValueUnguarded(operator, num, den) ==
    CASE operator = "mul" -> FloatV(num.n * den.n, num.d * den.d)
      [] operator = "add" -> FloatV(num.n * den.d + den.n * num.d, num.d * den.d)
      [] operator = "sub" -> FloatV(num.n * den.d - den.n * num.d, num.d * den.d)
      [] OTHER -> IF den.n # 0 THEN FloatV(num.n * den.d, num.d * den.n)
                  ELSE FloatV(num.n, num.d)

\* calc_val for two floats
CalcValue(operator, num, den) ==
    CASE operator = "mul" -> FloatV(num.n * den.n, num.d * den.d)
      [] operator = "add" -> FloatV(num.n * den.d + den.n * num.d, num.d * den.d)
      [] operator = "sub" -> FloatV(num.n * den.d - den.n * num.d, num.d * den.d)
      [] OTHER -> IF den.n # 0 THEN FloatV(num.n * den.d, num.d * den.n)
                  ELSE IntV(0)

\* variant: an operand that does not parse counts as zero and the
\* operator is applied
CalcRecordZeroed(rec, calc) ==
    LET num == Coerce(Get(rec, calc.numerator, IntV(0)))
        den == Coerce(Get(rec, calc.denominator, IntV(0)))
        val == CalcValue(calc.operator,
                         IF num.ok THEN num ELSE [ok |-> TRUE, n |-> 0, d |-> 1],
                         IF den.ok THEN den ELSE [ok |-> TRUE, n |-> 0, d |-> 1])
    IN  Update(rec, [f \in {calc.name} |-> val])

\* the record after the try block for one calculation
CalcRecord(rec, calc) ==
    LET num == Coerce(Get(rec, calc.numerator, IntV(0)))
        den == Coerce(Get(rec, calc.denominator, IntV(0)))
        val == IF num.ok /\ den.ok THEN CalcValue(calc.operator, num, den) ELSE IntV(0)
    IN  Update(rec, [f \in {calc.name} |-> val])

\* the condition under which a calculation is applied
CalcApplies(calc, headers) ==
    /\ calc.numerator # <<>>
    /\ calc.denominator # <<>>
    /\ calc.name # <<>>
    /\ calc.numerator \in Range(headers)
    /\ calc.denominator \in Range(headers)

\* variant: the output name is appended whether or not it is a header
RegisterHeaderAlways(headers, calc_name) == Append(headers, calc_name)

\* `if calc_name not in headers_all: headers_all.append(calc_name)`
RegisterHeader(headers, calc_name) ==
    IF calc_name \in Range(headers) THEN headers ELSE Append(headers, calc_name)

\* variant: a calculation with a missing operand still adds its column
ApplyCalculationAlways(calc, st) ==
    [h |-> RegisterHeader(st.h, calc.name),
     r |-> [i \in 1..Len(st.r) |->
               [key |-> st.r[i].key, rec |-> CalcRecord(st.r[i].rec, calc)]]]

\* headers_all (h) and rows_index (r) after one calculation
ApplyCalculation(calc, st) ==
    IF CalcApplies(calc, st.h)
    THEN [h |-> RegisterHeader(st.h, calc.name),
          r |-> [i \in 1..Len(st.r) |->
                    [key |-> st.r[i].key, rec |-> CalcRecord(st.r[i].rec, calc)]]]
    ELSE st

\* headers_all and rows_index after the first n calculations
RECURSIVE ApplyCalculations(_, _, _)
ApplyCalculations(calcs, st, n) ==
    IF n = 0 THEN st
    ELSE ApplyCalculation(calcs[n], ApplyCalculations(calcs, st, n - 1))

(***************************************************************************)
(* Tabular Renderer (server.py, build_csv_for_year)                        *)
(***************************************************************************)
\* re.sub(r'!!+', ' -> ', label): every run of two or more `!` becomes the
\* arrow, a single `!` is kept
RECURSIVE SubBangs(_)
SubBangs(s) ==
    IF s = <<>> THEN <<>>
    ELSE IF Len(s) >= 2 /\ s[1] = "!" /\ s[2] = "!"
    THEN LET rest == {i \in 1..Len(s) : s[i] # "!"}
             nxt  == IF rest = {} THEN Len(s) + 1
                     ELSE CHOOSE i \in rest : \A j \in rest : i <= j
         IN  <<" ", "-", ">", " ">> \o SubBangs(SubSeq(s, nxt, Len(s)))
    ELSE <<Head(s)>> \o SubBangs(Tail(s))

\* str.replace(c, '')
RemoveChar(s, c) == SelectSeq(s, LAMBDA x : x # c)

\* variant: the field name is shown whether or not the catalog knows it
pretty_label_raw(meta, var) == strip(RemoveChar(SubBangs(var), ":"))

\* pretty_label(var): the catalog label (or the field name) with the
\* hierarchy delimiter replaced, colons removed and whitespace trimmed
pretty_label(meta, var) ==
    LET label == IF var \in DOMAIN meta /\ meta[var] # <<>> THEN meta[var] ELSE var
    IN  strip(RemoveChar(SubBangs(label), ":"))

geo_fields(headers) == FilterIn(GeoLevels, Range(headers))

var_fields(headers) ==
    SortedSet(Range(headers) \ (Range(geo_fields(headers)) \cup {NAME}))

\* variant: the remaining fields keep the order of the header list
RenderUnsorted(meta, headers, index) ==
    LET gf == geo_fields(headers)
        vf == FilterIn(headers, Range(headers) \ (Range(gf) \cup {NAME}))
        fieldnames == gf \o <<NAME>> \o vf
    IN  [fields |-> fieldnames,
         header |-> gf \o <<NAME>> \o [i \in 1..Len(vf) |-> pretty_label(meta, vf[i])],
         rows   |-> [i \in 1..Len(index) |->
                       [j \in 1..Len(fieldnames) |->
                           Get(index[i].rec, fieldnames[j], StrV(<<>>))]]]

\* what csv.writer is given: the field names, the header row of display
\* labels and one row of cells per record ("" for a field the record lacks)
Render(meta, headers, index) ==
    LET gf == geo_fields(headers)
        vf == var_fields(headers)
        fieldnames == gf \o <<NAME>> \o vf
    IN  [fields |-> fieldnames,
         header |-> gf \o <<NAME>> \o [i \in 1..Len(vf) |-> pretty_label(meta, vf[i])],
         rows   |-> [i \in 1..Len(index) |->
                       [j \in 1..Len(fieldnames) |->
                           Get(index[i].rec, fieldnames[j], StrV(<<>>))]]]

(***************************************************************************)
(* The CSV text (csv.writer, server.py build_csv_for_year)                 *)
(***************************************************************************)
\* str(n) of a natural number
RECURSIVE IntStr(_)
IntStr(n) == IF n < 10 THEN <<Digit(n)>> ELSE IntStr(n \div 10) \o <<Digit(n % 10)>>

\* the decimal digits of r/d (0 <= r < d), at most k of them
RECURSIVE FracDigits(_, _, _)
FracDigits(r, d, k) ==
    IF r = 0 \/ k = 0 THEN <<>>
    ELSE <<Digit((10 * r) \div d)>> \o FracDigits((10 * r) % d, d, k - 1)

\* repr(float) of n/d: the quotients of the model have short decimal
\* expansions, which repr prints in full (the sign of a zero is not kept)
FloatStr(v) ==
    LET a    == Abs(v.n)
        frac == FracDigits(a % v.d, v.d, 16)
    IN  (IF v.n < 0 THEN <<"-">> ELSE <<>>) \o IntStr(a \div v.d) \o <<".">>
            \o (IF frac = <<>> THEN <<"0">> ELSE frac)

\* the text csv.writer writes for a cell value: None is written empty,
\* numbers by str()
CellText(v) ==
    CASE v.k = "str"  -> v.s
      [] v.k = "none" -> <<>>
      [] v.k = "int"  -> (IF v.n < 0 THEN <<"-">> ELSE <<>>) \o IntStr(Abs(v.n))
      [] OTHER        -> FloatStr(v)

\* a quote character is doubled inside a quoted field
RECURSIVE DoubleQuotes(_)
DoubleQuotes(s) ==
    IF s = <<>> THEN <<>>
    ELSE (IF Head(s) = "\"" THEN <<"\"", "\"">> ELSE <<Head(s)>>) \o DoubleQuotes(Tail(s))

\* QUOTE_MINIMAL: a field holding the delimiter, the quote character or a
\* line-terminator character is quoted
CsvField(s) ==
    IF \E i \in 1..Len(s) : s[i] \in {",", "\"", "\r", "\n"}
    THEN <<"\"">> \o DoubleQuotes(s) \o <<"\"">>
    ELSE s

\* sep.join(parts[lo..hi])
RECURSIVE JoinRange(_, _, _, _)
JoinRange(parts, sep, lo, hi) ==
    IF lo > hi THEN <<>>
    ELSE IF lo = hi THEN parts[lo]
    ELSE LET mid == (lo + hi) \div 2
         IN  JoinRange(parts, sep, lo, mid) \o sep \o JoinRange(parts, sep, mid + 1, hi)

\* sep.join(parts)
Join(parts, sep) == JoinRange(parts, sep, 1, Len(parts))

\* one row as csv.writer joins it, without the line terminator
CsvRow(texts) == Join([i \in 1..Len(texts) |-> CsvField(texts[i])], <<",">>)

\* buf.getvalue(): the header row and the data rows, each ended by \r\n
CsvText(header, rows) ==
    LET lines == <<CsvRow(header)>>
                    \o [i \in 1..Len(rows) |->
                           CsvRow([j \in 1..Len(rows[i]) |-> CellText(rows[i][j])])]
    IN  Join([i \in 1..Len(lines) |-> lines[i] \o <<"\r", "\n">>], <<>>)

\* s.split(sep) for a one-character separator
Split(s, sep) ==
    LET at == {i \in 1..Len(s) : s[i] = sep}
        cut == [k \in 0..(Cardinality(at) + 1) |->
                   IF k = 0 THEN 0
                   ELSE IF k = Cardinality(at) + 1 THEN Len(s) + 1
                   ELSE CHOOSE p \in at : Cardinality({q \in at : q < p}) = k - 1]
    IN  [k \in 1..(Cardinality(at) + 1) |-> SubSeq(s, cut[k - 1] + 1, cut[k] - 1)]

(***************************************************************************)
(* Specification of the resolver: calls on bounded inputs                  *)
(***************************************************************************)
ResolverIds ==
    { VarId(B01001, 1, <<"E">>), VarId(B01001, 1, <<"M">>),
      VarId(B01001, 2, <<"E">>), VarId(B01001, 2, <<"M">>),
      VarId(B19013, 1, <<"E">>) }

\* the label of a variable: the total line, or a line below the total
Label(v) ==
    IF Len(v) >= 10 /\ SubSeq(v, Len(v) - 3, Len(v) - 1) = <<"0", "0", "1">>
    THEN <<"E", "s", "t", "i", "m", "a", "t", "e", "!", "!", "T", "o", "t", "a", "l", ":">>
    ELSE <<"E", "s", "t", "i", "m", "a", "t", "e", "!", "!", "T", "o", "t", "a", "l", ":",
           "!", "!", "M", "a", "l", "e", ":">>

\* a variables.json document with the given ids
Catalog(ids) == [v \in ids |-> Label(v)]

TokenUniverse ==
    { B01001,
      B01001 \o <<"_", "*">>, b01001 \o <<"*">>, B01001 \o <<" ", "*">>,
      B01001 \o <<"_", "0", "0", "2">>, <<" ">> \o b01001 \o <<"_", "0", "0", "2", " ">>,
      <<" ", " ">> }

NoResponse == [status |-> 0, kind |-> "none", years |-> <<>>, files |-> <<>>, body |-> <<>>]

\* no collector was constructed: acs_data is empty
CollectorIdle ==
    /\ collector = "none" /\ api_keys = <<>> /\ current_key_index = 0
    /\ requests_made = 0 /\ step = "idle" /\ year_index = 0
    /\ group_tables = <<>> /\ table_index = 0
    /\ var_list = <<>> /\ batch_index = 0 /\ all_data = <<>>
    /\ acs_data = EmptyBag /\ sent = <<>> /\ batch_log = <<>>
    /\ county_data = <<>>
    /\ runs = 0 /\ failures = 0

\* no payload was read
PayloadIdle ==
    /\ years_value = NoneV /\ parsed_years = <<>>
    /\ question = <<>> /\ conversation_history = <<>> /\ chat = <<>>

\* the catalog store is not used: an empty table, no call made
StoreIdle ==
    /\ variables_table = {} /\ open_conns = 0
    /\ search_results = <<>> /\ searched = <<>> /\ lookup = <<>>
    /\ refreshes = <<>>

\* no download request is being handled
PipelineIdle ==
    /\ years = <<>> /\ geo = "county" /\ tables = <<>> /\ format_type = "zip"
    /\ calculations = <<>> /\ census = <<>>
    /\ pc = "idle" /\ yi = 0 /\ bad_years = <<>>
    /\ batches = <<>> /\ bi = 0 /\ headers_all = <<>> /\ rows_index = <<>>
    /\ artifacts = <<>> /\ saved = {} /\ response = NoResponse
    /\ meta_requests = <<>> /\ data_requests = <<>> /\ validated = <<>>
    /\ received = <<>>
    /\ StoreIdle
    /\ CollectorIdle
    /\ PayloadIdle

InitResolve ==
    /\ variables_meta \in {Catalog(ids) : ids \in SUBSET ResolverIds}
    /\ include_moe \in BOOLEAN
    /\ tokens = <<>>
    /\ resolved = <<>>
    /\ PipelineIdle

Call(toks) ==
    /\ tokens' = toks
    /\ resolved' = resolve_requested_variables(variables_meta, toks, include_moe)
    /\ UNCHANGED <<variables_meta, include_moe, pipeline_vars, store_vars,
                   collector_vars, payload_vars>>

\* the resolver is called with one more token
ResolveAppended ==
    \E tok \in TokenUniverse :
        /\ Len(tokens) < MaxTokens
        /\ Call(Append(tokens, tok))

\* the resolver is called with one token replaced
ResolveReplaced ==
    \E i \in 1..Len(tokens), tok \in TokenUniverse :
        Call([tokens EXCEPT ![i] = tok])

\* the resolver is called with two tokens exchanged
ResolveReordered ==
    \E i, j \in 1..Len(tokens) :
        /\ i < j
        /\ Call([tokens EXCEPT ![i] = tokens[j], ![j] = tokens[i]])

\* the resolver is called with one token removed
ResolveDropped ==
    \E i \in 1..Len(tokens) :
        Call(SubSeq(tokens, 1, i - 1) \o SubSeq(tokens, i + 1, Len(tokens)))

NextResolve ==
    \/ ResolveAppended
    \/ ResolveReplaced
    \/ ResolveReordered
    \/ ResolveDropped

SpecResolve == InitResolve /\ [][NextResolve]_vars

(***************************************************************************)
(* The remote data API                                                     *)
(***************************************************************************)
\* variables.json of a year that publishes table B01001 (every estimate
\* line, and the margins of error of lines 001 and 002)
CatalogA ==
    Catalog({VarId(B01001, n, <<"E">>) : n \in 1..TableLines}
            \cup {VarId(B01001, 1, <<"M">>), VarId(B01001, 2, <<"M">>)})

\* variables.json of a year that publishes table B19013 only
CatalogB == Catalog({VarId(B19013, 1, <<"E">>)})

\* fetch_variables_metadata: the request fails (raise_for_status, timeout)
\* or returns the "variables" document
MetaOutcomes ==
    {[ok |-> FALSE, meta |-> <<>>]}
        \cup {[ok |-> TRUE, meta |-> c] : c \in {CatalogA, CatalogB}}

RowIds == 1..MaxRows

\* the variables whose published values differ from row to row
Numerator   == VarId(B01001, 1, <<"E">>)
Denominator == VarId(B01001, 2, <<"E">>)

Profiles ==
    << [num |-> StrV(<<"1", "0">>), den |-> StrV(<<"4">>)],
       [num |-> StrV(<<"1", "0">>), den |-> StrV(<<"0">>)],
       [num |-> StrV(<<"x">>),      den |-> StrV(<<"5">>)],
       [num |-> NoneV,              den |-> StrV(<<"-", "2">>)] >>

\* a data set: the profile of each row, the profiles taken in turn from s
World(s) == [r \in RowIds |-> Profiles[((r + s - 1) % Len(Profiles)) + 1]]

DataValue(r, v) ==
    IF v = Numerator THEN census[r].num
    ELSE IF v = Denominator THEN census[r].den
    ELSE StrV(<<"7">>)

\* the geography columns the data endpoint adds for build_geo_params(geo)
GeoHeaders(g) == IF g = "county" THEN <<state, county>> ELSE <<state, county, tract>>

GeoValues(g, r) ==
    IF g = "county" THEN <<StrV(<<"1", "3">>), StrV(<<"0", "5", "1">>)>>
    ELSE <<StrV(<<"1", "3">>), StrV(<<"0", "5", "1">>),
           StrV(<<"0", "0", "0", "1", "0", Digit(r)>>)>>

\* the rows a response may hold: the county alone, or the first n tracts
Shapes(g) ==
    IF g = "county" THEN {<<1>>} ELSE {[i \in 1..n |-> i] : n \in 1..MaxRows}

NameVariants == 1..2

NameValue(nv) ==
    IF nv = 1 THEN StrV(<<"C", "h", "a", "t", "h", "a", "m", ",", " ", "G", "A">>)
    ELSE StrV(<<"C", "h", "a", "t", "h", "a", "m">>)

\* the JSON array of arrays answering get=NAME,<batch>: row 1 is the header
BatchResponse(batch, g, shape, nv) ==
    <<[i \in 1..(1 + Len(batch) + Len(GeoHeaders(g))) |->
          StrV((<<NAME>> \o batch \o GeoHeaders(g))[i])]>>
    \o [i \in 1..Len(shape) |->
          <<NameValue(nv)>>
              \o [j \in 1..Len(batch) |-> DataValue(shape[i], batch[j])]
              \o GeoValues(g, shape[i])]

(***************************************************************************)
(* download and build_csv_for_year (server.py)                             *)
(***************************************************************************)
ErrorResponse(code, ys) ==
    [status |-> code, kind |-> "error", years |-> ys, files |-> <<>>, body |-> <<>>]

Filename(y) == [slug |-> "chatham", geo |-> geo, year |-> y]

\* variant: years that failed validation are dropped and the rest is built
AfterValidationLenient(bad) ==
    [pc |-> "meta", yi |-> 1, response |-> response]

\* download, after the validation loop: a request with a bad year is
\* answered 400, otherwise the first year is built
AfterValidation(bad) ==
    IF bad # <<>>
    THEN [pc |-> "done", yi |-> yi + 1, response |-> ErrorResponse(400, bad)]
    ELSE [pc |-> "meta", yi |-> 1, response |-> response]

\* download: `if not tables` answers 400
RejectNoTables ==
    /\ pc = "validate"
    /\ tables = <<>>
    /\ response' = ErrorResponse(400, <<>>)
    /\ pc' = "done"
    /\ UNCHANGED <<store_vars, collector_vars, payload_vars, resolver_vars, request_vars, build_vars, yi, bad_years,
                   artifacts, saved, meta_requests, data_requests, validated>>

\* variant: a year whose metadata request fails is not reported
ValidateYearErrorsIgnored ==
    /\ pc = "validate"
    /\ tables # <<>>
    /\ yi <= Len(years)
    /\ \E o \in MetaOutcomes :
          LET y   == years[yi]
              res == IF o.ok
                     THEN resolve_requested_variables(o.meta, tables, include_moe)
                     ELSE <<>>
              bad == IF o.ok /\ res = <<>> THEN Append(bad_years, y) ELSE bad_years
              nxt == AfterValidation(bad)
          IN  /\ meta_requests' = Append(meta_requests, y)
              /\ variables_meta' = IF o.ok THEN o.meta ELSE variables_meta
              /\ resolved' = IF o.ok THEN res ELSE resolved
              /\ bad_years' = bad
              /\ validated' = Append(validated,
                    [year |-> y,
                     meta |-> IF o.ok THEN o.meta ELSE <<>>,
                     outcome |-> IF ~o.ok THEN "error"
                                 ELSE IF res = <<>> THEN "empty" ELSE "ok"])
              /\ IF yi < Len(years)
                 THEN /\ yi' = yi + 1
                      /\ UNCHANGED <<pc, response>>
                 ELSE /\ pc' = nxt.pc
                      /\ yi' = nxt.yi
                      /\ response' = nxt.response
    /\ UNCHANGED <<store_vars, collector_vars, payload_vars, tokens, include_moe, request_vars, build_vars, artifacts, saved,
                   data_requests>>

\* download: one pass of the validation loop (fetch the year's catalog and
\* resolve the tokens), and after the last pass the decision on bad_years
ValidateYear ==
    /\ pc = "validate"
    /\ tables # <<>>
    /\ yi <= Len(years)
    /\ \E o \in MetaOutcomes :
          LET y   == years[yi]
              res == IF o.ok
                     THEN resolve_requested_variables(o.meta, tables, include_moe)
                     ELSE <<>>
              bad == IF o.ok /\ res # <<>> THEN bad_years ELSE Append(bad_years, y)
              nxt == AfterValidation(bad)
          IN  /\ meta_requests' = Append(meta_requests, y)
              /\ variables_meta' = IF o.ok THEN o.meta ELSE variables_meta
              /\ resolved' = IF o.ok THEN res ELSE resolved
              /\ bad_years' = bad
              /\ validated' = Append(validated,
                    [year |-> y,
                     meta |-> IF o.ok THEN o.meta ELSE <<>>,
                     outcome |-> IF ~o.ok THEN "error"
                                 ELSE IF res = <<>> THEN "empty" ELSE "ok"])
              /\ IF yi < Len(years)
                 THEN /\ yi' = yi + 1
                      /\ UNCHANGED <<pc, response>>
                 ELSE /\ pc' = nxt.pc
                      /\ yi' = nxt.yi
                      /\ response' = nxt.response
    /\ UNCHANGED <<store_vars, collector_vars, payload_vars, tokens, include_moe, request_vars, build_vars, artifacts, saved,
                   data_requests>>

\* build_csv_for_year, up to the batch loop: fetch the catalog, resolve,
\* raise when nothing resolved, split into batches
StartYear ==
    /\ pc = "meta"
    /\ \E o \in MetaOutcomes :
          LET y   == years[yi]
              res == IF o.ok
                     THEN resolve_requested_variables(o.meta, tables, include_moe)
                     ELSE <<>>
          IN  /\ meta_requests' = Append(meta_requests, y)
              /\ variables_meta' = IF o.ok THEN o.meta ELSE variables_meta
              /\ resolved' = IF o.ok THEN res ELSE resolved
              /\ IF o.ok /\ res # <<>>
                 THEN /\ batches' = chunk(SortedSet(Range(res)), BatchSize)
                      /\ bi' = 1
                      /\ headers_all' = <<>>
                      /\ rows_index' = <<>>
                      /\ received' = <<>>
                      /\ pc' = "fetch"
                      /\ UNCHANGED response
                 ELSE /\ response' = ErrorResponse(502, <<y>>)
                      /\ pc' = "done"
                      /\ UNCHANGED build_vars
    /\ UNCHANGED <<store_vars, collector_vars, payload_vars, tokens, include_moe, request_vars, yi, bad_years, artifacts, saved,
                   data_requests, validated>>

\* build_csv_for_year: one pass of the batch loop whose request succeeds
BatchResponds ==
    /\ pc = "fetch"
    /\ \E shape \in Shapes(geo), nv \in NameVariants :
          \* the first response of a year carries the first spelling of NAME
          /\ (bi = 1 => nv = 1)
          /\ LET data    == BatchResponse(batches[bi], geo, shape, nv)
                 headers == [i \in 1..Len(data[1]) |-> data[1][i].s]
                 rows    == Tail(data)
                 recs    == [i \in 1..Len(rows) |-> DictZip(headers, rows[i])]
             IN  /\ headers_all' = MergeHeaders(headers_all, headers)
                 /\ rows_index' = MergeRows(rows_index, headers, rows)
                 /\ received' = received \o
                       [i \in 1..Len(rows) |->
                           [batch |-> bi,
                            key   |-> GeoKey(recs[i], FilterIn(GeoLevels, Range(headers))),
                            rec   |-> recs[i]]]
    /\ data_requests' = Append(data_requests,
          [year |-> years[yi], batch |-> bi, get |-> <<NAME>> \o batches[bi], ok |-> TRUE])
    /\ bi' = bi + 1
    /\ pc' = IF bi = Len(batches) THEN "finish" ELSE "fetch"
    /\ UNCHANGED <<store_vars, collector_vars, payload_vars, resolver_vars, request_vars, batches, yi, bad_years, artifacts, saved,
                   response, meta_requests, validated>>

\* variant: a failed batch request is skipped and the loop goes on
BatchFailsSkipped ==
    /\ pc = "fetch"
    /\ data_requests' = Append(data_requests,
          [year |-> years[yi], batch |-> bi, get |-> <<NAME>> \o batches[bi], ok |-> FALSE])
    /\ bi' = bi + 1
    /\ pc' = IF bi = Len(batches) THEN "finish" ELSE "fetch"
    /\ UNCHANGED <<store_vars, collector_vars, payload_vars, resolver_vars, request_vars, batches, headers_all, rows_index, received,
                   yi, bad_years, artifacts, saved, response, meta_requests, validated>>

\* build_csv_for_year: a batch request raises (network error, non-2xx
\* status, malformed JSON); nothing in build_csv_for_year catches it, the
\* try block of download answers 502
BatchFails ==
    /\ pc = "fetch"
    /\ data_requests' = Append(data_requests,
          [year |-> years[yi], batch |-> bi, get |-> <<NAME>> \o batches[bi], ok |-> FALSE])
    /\ response' = ErrorResponse(502, <<years[yi]>>)
    /\ pc' = "done"
    /\ UNCHANGED <<store_vars, collector_vars, payload_vars, resolver_vars, request_vars, build_vars, yi, bad_years, artifacts, saved,
                   meta_requests, validated>>

\* variant: the header line of every year is kept
CombinedRowsEveryHeader(y, first, content) ==
    LET year_lines == Split(strip(content), "\n")
    IN  [i \in 1..Len(year_lines) |->
            IF i = 1 THEN <<"y", "e", "a", "r", ",">> \o year_lines[1]
            ELSE IntStr(y) \o <<",">> \o year_lines[i]]

\* download, combined format: what one year appends to combined_rows
\* (first: y == years[0])
CombinedRows(y, first, content) ==
    LET year_lines == Split(strip(content), "\n")
        data == [i \in 1..(Len(year_lines) - 1) |->
                    IntStr(y) \o <<",">> \o year_lines[i + 1]]
    IN  IF first THEN <<<<"y", "e", "a", "r", ",">> \o year_lines[1]>> \o data
        ELSE data

\* combined_rows after the first n years
RECURSIVE CombinedRowsUpTo(_, _)
CombinedRowsUpTo(arts, n) ==
    IF n = 0 THEN <<>>
    ELSE CombinedRowsUpTo(arts, n - 1)
            \o CombinedRows(arts[n].year, arts[n].year = arts[1].year,
                            CsvText(arts[n].header, arts[n].rows))

\* combined_content = '\n'.join(combined_rows)
CombinedContent(arts) == Join(CombinedRowsUpTo(arts, Len(arts)), <<"\n">>)

\* variant: a failed write under csv-downloads is raised to download, which
\* answers 502
FinishYearDiskFatal ==
    /\ pc = "finish"
    /\ \E disk_ok \in BOOLEAN :
          LET y   == years[yi]
              st  == ApplyCalculations(calculations,
                         [h |-> headers_all, r |-> rows_index], Len(calculations))
              out == Render(variables_meta, st.h, st.r)
              art == [year     |-> y,
                      filename |-> Filename(y),
                      header   |-> out.header,
                      fields   |-> out.fields,
                      rows     |-> out.rows]
          IN  /\ headers_all' = st.h
              /\ rows_index' = st.r
              /\ artifacts' = IF disk_ok THEN Append(artifacts, art) ELSE artifacts
              /\ saved' = IF disk_ok THEN saved \cup {Filename(y)} ELSE saved
              /\ IF ~disk_ok
                 THEN /\ yi' = yi
                      /\ pc' = "done"
                      /\ response' = ErrorResponse(502, <<y>>)
                 ELSE IF yi < Len(years)
                 THEN /\ yi' = yi + 1
                      /\ pc' = "meta"
                      /\ UNCHANGED response
                 ELSE /\ yi' = yi
                      /\ pc' = "done"
                      /\ response' =
                            [status |-> 200,
                             kind   |-> IF Len(years) = 1 THEN "csv"
                                        ELSE IF format_type = "combined" THEN "combined"
                                        ELSE "zip",
                             years  |-> years,
                             files  |-> Append(artifacts, art),
                             body   |-> IF Len(years) > 1 /\ format_type = "combined"
                                        THEN CombinedContent(Append(artifacts, art))
                                        ELSE <<>>]
    /\ UNCHANGED <<store_vars, collector_vars, payload_vars, resolver_vars, request_vars, batches, bi, received, bad_years,
                   meta_requests, data_requests, validated>>

\* build_csv_for_year after the batch loop (calculated fields, rendering,
\* the copy under csv-downloads) and download's use of what it returns
FinishYear ==
    /\ pc = "finish"
    /\ \E disk_ok \in BOOLEAN :
          LET y   == years[yi]
              st  == ApplyCalculations(calculations,
                         [h |-> headers_all, r |-> rows_index], Len(calculations))
              out == Render(variables_meta, st.h, st.r)
              art == [year     |-> y,
                      filename |-> Filename(y),
                      header   |-> out.header,
                      fields   |-> out.fields,
                      rows     |-> out.rows]
          IN  /\ headers_all' = st.h
              /\ rows_index' = st.r
              /\ artifacts' = Append(artifacts, art)
              /\ saved' = IF disk_ok THEN saved \cup {Filename(y)} ELSE saved
              /\ IF yi < Len(years)
                 THEN /\ yi' = yi + 1
                      /\ pc' = "meta"
                      /\ UNCHANGED response
                 ELSE /\ yi' = yi
                      /\ pc' = "done"
                      /\ response' =
                            [status |-> 200,
                             kind   |-> IF Len(years) = 1 THEN "csv"
                                        ELSE IF format_type = "combined" THEN "combined"
                                        ELSE "zip",
                             years  |-> years,
                             files  |-> Append(artifacts, art),
                             body   |-> IF Len(years) > 1 /\ format_type = "combined"
                                        THEN CombinedContent(Append(artifacts, art))
                                        ELSE <<>>]
    /\ UNCHANGED <<store_vars, collector_vars, payload_vars, resolver_vars, request_vars, batches, bi, received, bad_years,
                   meta_requests, data_requests, validated>>

Next ==
    \/ RejectNoTables
    \/ ValidateYear
    \/ StartYear
    \/ BatchResponds
    \/ BatchFails
    \/ FinishYear

(***************************************************************************)
(* Requests                                                                *)
(***************************************************************************)
Ratio == <<"r", "a", "t", "i", "o">>
Share == <<"s", "h", "a", "r", "e">>
Age   == <<"A", "g", "e">>

RatioDiv   == [numerator |-> Numerator, denominator |-> Denominator,
               operator |-> "div", name |-> Ratio]
RatioAdd   == [numerator |-> Numerator, denominator |-> Denominator,
               operator |-> "add", name |-> Ratio]
MissingNum == [numerator |-> VarId(B19013, 1, <<"E">>), denominator |-> Denominator,
               operator |-> "div", name |-> Share]
MissingDen == [numerator |-> Numerator, denominator |-> VarId(B19013, 1, <<"E">>),
               operator |-> "mul", name |-> Share]

AgeSub     == [numerator |-> Numerator, denominator |-> Denominator,
               operator |-> "sub", name |-> Age]

CalcUniverse == {RatioDiv, RatioAdd, AgeSub, MissingNum, MissingDen}

CalcLists == UNION {[1..n -> CalcUniverse] : n \in 0..MaxCalcs}

WholeTable == <<B01001 \o <<"_", "*">>>>
TwoLines   == <<B01001, B01001 \o <<"_", "0", "0", "2">>>>
OtherTable == <<B19013>>

YearLists == {[i \in 1..n |-> 2021 + i] : n \in 1..MaxYears}

RequestReceived ==
    /\ variables_meta = <<>> /\ tokens = <<>> /\ resolved = <<>>
    /\ pc = "validate" /\ yi = 1 /\ bad_years = <<>>
    /\ batches = <<>> /\ bi = 0 /\ headers_all = <<>> /\ rows_index = <<>>
    /\ artifacts = <<>> /\ saved = {} /\ response = NoResponse
    /\ meta_requests = <<>> /\ data_requests = <<>> /\ validated = <<>>
    /\ received = <<>>
    /\ StoreIdle
    /\ CollectorIdle
    /\ PayloadIdle

\* download requests over one or more years, at county level
Init ==
    /\ RequestReceived
    /\ include_moe \in BOOLEAN
    /\ years \in YearLists
    /\ geo = "county"
    /\ tables \in {<<>>, WholeTable, TwoLines, OtherTable}
    /\ format_type \in {"zip", "combined"}
    /\ calculations = <<RatioDiv>>
    /\ census = World(0)

Spec == Init /\ [][Next]_vars

\* single-year download requests at tract level, with derived columns over
\* varied data
InitBuild ==
    /\ RequestReceived
    /\ include_moe = FALSE
    /\ years = <<2023>>
    /\ geo = "tract"
    /\ tables \in {<<>>, TwoLines}
    /\ format_type = "zip"
    /\ calculations \in CalcLists
    /\ census \in {World(0), World(2)}

SpecBuild == InitBuild /\ [][Next]_vars

\* combined-format download requests over several years, at tract level
InitCombined ==
    /\ RequestReceived
    /\ include_moe = FALSE
    /\ years = [i \in 1..MaxYears |-> 2021 + i]
    /\ geo = "tract"
    /\ tables \in {<<>>, TwoLines}
    /\ format_type = "combined"
    /\ calculations \in {<<>>, <<RatioDiv>>}
    /\ census \in {World(0), World(2)}

SpecCombined == InitCombined /\ [][Next]_vars

(***************************************************************************)
(* The persisted catalog (acs_database.py, class ACSDatabase)              *)
(***************************************************************************)
MaxRefreshes == 2     \* most populate_from_api calls that store a response
MaxOpen == 1          \* most connections left open

\* SQLite compares the characters of a LIKE pattern without regard to the
\* case of ASCII letters
CaseFold(c) == IF Code[c] >= 97 /\ Code[c] <= 122 THEN Code[c] - 32 ELSE Code[c]

\* text[j..] matches pattern[i..]: % stands for any run of characters, _ for
\* any one character
RECURSIVE LikeFrom(_, _, _, _)
LikeFrom(pattern, text, i, j) ==
    IF i > Len(pattern) THEN j > Len(text)
    ELSE IF pattern[i] = "%"
    THEN \E k \in j..(Len(text) + 1) : LikeFrom(pattern, text, i + 1, k)
    ELSE /\ j <= Len(text)
         /\ (pattern[i] = "_" \/ CaseFold(pattern[i]) = CaseFold(text[j]))
         /\ LikeFrom(pattern, text, i + 1, j + 1)

\* text LIKE pattern
Like(text, pattern) == LikeFrom(pattern, text, 1, 1)

\* f'%{term}%'
Around(term) == <<"%">> \o term \o <<"%">>

\* str.split(): the maximal runs of non-whitespace characters
SplitWords(s) ==
    LET starts == {i \in 1..Len(s) :
                      ~IsSpace(s[i]) /\ (i = 1 \/ IsSpace(s[i - 1]))}
        begin(k) == CHOOSE p \in starts : Cardinality({q \in starts : q < p}) = k - 1
        finish(p) == CHOOSE e \in p..Len(s) :
                        /\ \A i \in p..e : ~IsSpace(s[i])
                        /\ (e = Len(s) \/ IsSpace(s[e + 1]))
    IN  [k \in 1..Cardinality(starts) |-> SubSeq(s, begin(k), finish(begin(k)))]

\* json.dumps of a missing attribute ({}) or of a string
JsonDumps(info, key) ==
    IF key \in DOMAIN info THEN <<"\"">> \o info[key] \o <<"\"">> ELSE <<"{", "}">>

\* the row INSERT OR REPLACE writes for one entry of the response
TableRow(var_id, info, year) ==
    [id             |-> var_id,
     name           |-> Get(info, "label", <<>>),
     concept        |-> Get(info, "concept", <<>>),
     group_name     |-> Get(info, "group", <<>>),
     year           |-> year,
     predicate_type |-> Get(info, "predicateType", <<>>),
     var_limit      |-> Get(info, "limit", <<>>),
     attributes     |-> JsonDumps(info, "attributes"),
     var_values     |-> JsonDumps(info, "values")]

B19001 == <<"B", "1", "9", "0", "0", "1">>
B25010 == <<"B", "2", "5", "0", "1", "0">>

\* labels and concepts of the catalog entries
MedianIncome ==
    <<"M", "e", "d", "i", "a", "n", " ", "h", "o", "u", "s", "e", "h", "o",
      "l", "d", " ", "i", "n", "c", "o", "m", "e">>
IncomeMedian ==
    <<"H", "o", "u", "s", "e", "h", "o", "l", "d", " ", "i", "n", "c", "o",
      "m", "e", " ", "(", "m", "e", "d", "i", "a", "n", ")">>
IncomeBySize ==
    <<"I", "n", "c", "o", "m", "e", " ", "b", "y", " ", "h", "o", "u", "s",
      "e", "h", "o", "l", "d", " ", "s", "i", "z", "e">>
Total == <<"T", "o", "t", "a", "l">>
INCOME == <<"I", "N", "C", "O", "M", "E">>
HOUSEHOLD_INCOME ==
    <<"H", "O", "U", "S", "E", "H", "O", "L", "D", " ", "I", "N", "C", "O",
      "M", "E">>
SIZE_BY_INCOME ==
    <<"H", "O", "U", "S", "E", "H", "O", "L", "D", " ", "S", "I", "Z", "E",
      " ", "B", "Y", " ", "I", "N", "C", "O", "M", "E">>
SEX_BY_AGE == <<"S", "E", "X", " ", "B", "Y", " ", "A", "G", "E">>
IntType == <<"i", "n", "t">>

\* responses of variables.json: id -> the entry's attributes
Doc2023 ==
    (VarId(B19013, 1, <<"E">>) :>
        [label |-> MedianIncome, concept |-> INCOME, group |-> B19013,
         predicateType |-> IntType])
    @@ (VarId(B19001, 1, <<"E">>) :>
        [label |-> IncomeBySize, concept |-> HOUSEHOLD_INCOME, group |-> B19001])
    @@ (VarId(B01001, 1, <<"E">>) :>
        [label |-> Total, concept |-> SEX_BY_AGE, group |-> B01001])

Doc2022 ==
    (VarId(B19013, 1, <<"E">>) :>
        [label |-> IncomeMedian, concept |-> HOUSEHOLD_INCOME, group |-> B19013])
    @@ (VarId(B25010, 1, <<"E">>) :>
        [label |-> IncomeBySize, concept |-> SIZE_BY_INCOME])

StoreYears == {2022, 2023}

\* the document the API answers for a year
Doc(y) == IF y = 2023 THEN Doc2023 ELSE Doc2022

\* variant: a row is replaced only by a row of the same id and year
InsertOrReplaceByYear(table, variables, year) ==
    {row \in table : row.id \notin DOMAIN variables \/ row.year # year}
        \cup {TableRow(v, variables[v], year) : v \in DOMAIN variables}

\* the table after INSERT OR REPLACE of every entry of the response: id is
\* the primary key, a row of the same id is replaced
InsertOrReplace(table, variables, year) ==
    {row \in table : row.id \notin DOMAIN variables}
        \cup {TableRow(v, variables[v], year) : v \in DOMAIN variables}

\* the search terms of the calls
QPhrase == <<"h", "o", "u", "s", "e", "h", "o", "l", "d", " ", "i", "n", "c", "o", "m", "e">>
QWords  == <<"i", "n", "c", "o", "m", "e", " ", " ", "H", "O", "U", "S", "E", "H", "O", "L", "D">>
QTotal  == <<"t", "o", "t", "a", "l">>
QId     == <<"1", "9", "0", "1", "3", "_", "0", "0", "1">>
QBlank  == <<" ", " ">>
QWild   == <<"i", "n", "c", "o", "m", "e", " ", "b", "_", "9", "0", "1", "3">>

Queries == {QPhrase, QWords, QTotal, QId, QBlank, QWild}

Limits == {1, 2, 50}

\* the columns search_variables matches against
AnyColumnLike(row, pattern) ==
    \/ Like(row.name, pattern)
    \/ Like(row.concept, pattern)
    \/ Like(row.id, pattern)
    \/ Like(row.group_name, pattern)

\* the CASE of the first query's ORDER BY
PhrasePriority(row, pattern) ==
    IF Like(row.name, pattern) THEN 1
    ELSE IF Like(row.id, pattern) THEN 2
    ELSE IF Like(row.concept, pattern) THEN 3
    ELSE 4

\* the orders in which a query may return the rows S under ORDER BY, for
\* the set `before` of the pairs <<a, b>> that the ordering puts a first:
\* rows that the ordering does not separate come in any order
Orderings(S, before) ==
    {f \in [1..Cardinality(S) -> S] :
        /\ \A i \in DOMAIN f : \A j \in DOMAIN f : i # j => f[i] # f[j]
        /\ \A i \in DOMAIN f : \A j \in DOMAIN f :
               i < j => <<f[j], f[i]>> \notin before}

\* LIMIT n
Take(rows, n) == SubSeq(rows, 1, Min(n, Len(rows)))

\* SELECT id, name, concept, group_name, year
Selected(row) ==
    [id |-> row.id, name |-> row.name, concept |-> row.concept,
     group_name |-> row.group_name, year |-> row.year]

\* the rows of the first query, in each order it may return them
PhrasePass(table, search_term, limit) ==
    LET pattern == Around(search_term)
        hits == {row \in table : AnyColumnLike(row, pattern)}
        before ==
            {p \in hits \X hits :
                \/ PhrasePriority(p[1], pattern) < PhrasePriority(p[2], pattern)
                \/ /\ PhrasePriority(p[1], pattern) = PhrasePriority(p[2], pattern)
                   /\ StrLess(p[1].name, p[2].name)}
    IN  {Take(f, limit) : f \in Orderings(hits, before)}

\* the rows of the second query after the results of the first
WordPass(table, words, existing, limit) ==
    LET hits == {row \in table :
                    /\ \A k \in 1..Len(words) : AnyColumnLike(row, Around(words[k]))
                    /\ \A i \in 1..Len(existing) : existing[i].id # row.id}
        before == {p \in hits \X hits : StrLess(p[1].name, p[2].name)}
    IN  {Take(f, limit) : f \in Orderings(hits, before)}

\* variant: the word query runs first and the phrase query fills the rest
SearchResultsWordsFirst(table, search_term, limit) ==
    LET words == SplitWords(search_term)
    IN  UNION {IF Len(first) < limit
               THEN {first \o Take(SelectSeq(second,
                                      LAMBDA r : \A i \in 1..Len(first) : first[i].id # r.id),
                                   limit - Len(first)) :
                        second \in PhrasePass(table, search_term, 50)}
               ELSE {first} :
               first \in WordPass(table, words, <<>>, limit)}

\* what search_variables may return for a term with at least one word
SearchResults(table, search_term, limit) ==
    LET words == SplitWords(search_term)
    IN  UNION {IF Len(results) < limit
               THEN {results \o additional :
                        additional \in WordPass(table, words, results,
                                                limit - Len(results))}
               ELSE {results} :
               results \in PhrasePass(table, search_term, limit)}

\* sqlite3.connect and conn.close on the count of open connections
Connect(n) == n + 1
Close(n) == n - 1

\* a connection that goes out of scope unclosed: an interpreter that counts
\* references finalises it at the return, another keeps it open until a
\* collection that may never come
Abandon(n) == {n, Close(n)}

\* populate_from_api: the request raises (timeout, raise_for_status) before
\* a connection is opened
PopulateFails ==
    /\ \E y \in StoreYears :
          lookup' = [op |-> "populate_from_api", arg |-> y, result |-> "raised"]
    /\ search_results' = <<>> /\ searched' = <<>>
    /\ UNCHANGED <<resolver_vars, pipeline_vars, collector_vars, payload_vars, variables_table, open_conns,
                   refreshes>>

\* populate_from_api: every entry of the response is written with INSERT
\* OR REPLACE under the primary key id, then the connection is committed
\* and closed; the number of entries is returned
Populate ==
    /\ Len(refreshes) < MaxRefreshes
    /\ \E y \in StoreYears :
          /\ variables_table' = InsertOrReplace(variables_table, Doc(y), y)
          /\ refreshes' = Append(refreshes,
                [year |-> y, ok |-> TRUE, doc |-> Doc(y),
                 count |-> Cardinality(DOMAIN Doc(y))])
          /\ lookup' = [op |-> "populate_from_api", arg |-> y,
                        result |-> Cardinality(DOMAIN Doc(y))]
    /\ open_conns' = Close(Connect(open_conns))
    /\ search_results' = <<>> /\ searched' = <<>>
    /\ UNCHANGED <<resolver_vars, pipeline_vars, collector_vars, payload_vars>>

\* search_variables with a term that has no word: it returns [] after the
\* connection was opened, without closing it
SearchNoWords ==
    /\ \E search_term \in Queries, limit \in Limits :
          /\ SplitWords(search_term) = <<>>
          /\ searched' = [term |-> search_term, limit |-> limit]
          /\ search_results' = <<>>
    /\ open_conns' \in Abandon(Connect(open_conns))
    /\ open_conns' <= MaxOpen
    /\ lookup' = <<>>
    /\ UNCHANGED <<resolver_vars, pipeline_vars, collector_vars, payload_vars, variables_table, refreshes>>

\* search_variables with a term of one or more words
Search ==
    /\ \E search_term \in Queries, limit \in Limits :
          /\ SplitWords(search_term) # <<>>
          /\ searched' = [term |-> search_term, limit |-> limit]
          /\ \E rows \in SearchResults(variables_table, search_term, limit) :
                search_results' = [i \in 1..Len(rows) |-> Selected(rows[i])]
    /\ open_conns' = Close(Connect(open_conns))
    /\ lookup' = <<>>
    /\ UNCHANGED <<resolver_vars, pipeline_vars, collector_vars, payload_vars, variables_table, refreshes>>

\* json.loads of what JsonDumps wrote: {} (the empty dict) or a string
JsonLoads(text) ==
    IF text = <<"{", "}">> THEN <<>> ELSE SubSeq(text, 2, Len(text) - 1)

\* the ids of the get_variable_details calls: one the responses hold and
\* one they do not
DetailIds == {VarId(B19013, 1, <<"E">>), VarId(B19013, 2, <<"E">>)}

\* the groups of the get_variables_by_group calls
GroupNames == {B19013}

\* what get_variable_details returns: the row as a dict with the attributes
\* column parsed (the key 'values' is no column, so var_values stays
\* text), {} when no row has the id
VariableDetails(table, var_id) ==
    IF \E row \in table : row.id = var_id
    THEN LET row == CHOOSE r \in table : r.id = var_id
         IN  IF row.attributes # <<>>
             THEN [row EXCEPT !.attributes = JsonLoads(@)]
             ELSE row
    ELSE <<>>

\* what get_variables_by_group returns: (id, name, concept) of the rows of
\* the group and year, ordered by id
VariablesByGroup(table, group_name, year) ==
    LET hits == {row \in table : row.group_name = group_name /\ row.year = year}
        ids  == SortedSet({row.id : row \in hits})
    IN  [i \in 1..Len(ids) |->
            LET row == CHOOSE r \in hits : r.id = ids[i]
            IN  <<row.id, row.name, row.concept>>]

\* what get_database_stats may return: the groups of equal count come in
\* any order
DatabaseStats(table) ==
    LET count(g) == Cardinality({row \in table : row.group_name = g})
        groups == {<<g, count(g)>> : g \in {row.group_name : row \in table} \ {<<>>}}
        before == {p \in groups \X groups : p[1][2] > p[2][2]}
    IN  {[total_variables |-> Cardinality(table),
          by_year |-> [y \in {row.year : row \in table} |->
                          Cardinality({row \in table : row.year = y})],
          top_groups |-> Take(f, 10)] : f \in Orderings(groups, before)}

\* get_variable_details
GetVariableDetails ==
    /\ \E var_id \in DetailIds :
          lookup' = [op |-> "get_variable_details", arg |-> var_id,
                     result |-> VariableDetails(variables_table, var_id)]
    /\ open_conns' = Close(Connect(open_conns))
    /\ search_results' = <<>> /\ searched' = <<>>
    /\ UNCHANGED <<resolver_vars, pipeline_vars, collector_vars, payload_vars, variables_table, refreshes>>

\* get_variables_by_group
GetVariablesByGroup ==
    /\ \E group_name \in GroupNames, year \in StoreYears :
          lookup' = [op |-> "get_variables_by_group", arg |-> <<group_name, year>>,
                     result |-> VariablesByGroup(variables_table, group_name, year)]
    /\ open_conns' = Close(Connect(open_conns))
    /\ search_results' = <<>> /\ searched' = <<>>
    /\ UNCHANGED <<resolver_vars, pipeline_vars, collector_vars, payload_vars, variables_table, refreshes>>

\* get_database_stats
GetDatabaseStats ==
    /\ \E stats \in DatabaseStats(variables_table) :
          lookup' = [op |-> "get_database_stats", arg |-> <<>>, result |-> stats]
    /\ open_conns' = Close(Connect(open_conns))
    /\ search_results' = <<>> /\ searched' = <<>>
    /\ UNCHANGED <<resolver_vars, pipeline_vars, collector_vars, payload_vars, variables_table, refreshes>>

NextStore ==
    \/ PopulateFails
    \/ Populate
    \/ SearchNoWords
    \/ Search
    \/ GetVariableDetails
    \/ GetVariablesByGroup
    \/ GetDatabaseStats

\* ACSDatabase(): init_database creates the table if it does not exist
InitStore ==
    /\ variables_meta = <<>> /\ include_moe = FALSE
    /\ tokens = <<>> /\ resolved = <<>>
    /\ PipelineIdle

SpecStore == InitStore /\ [][NextStore]_vars

(***************************************************************************)
(* The collectors (comprehensive_acs_collector.py, class                   *)
(* ComprehensiveACSCollector; collect_2017_2020_acs_data.py, class         *)
(* BatchACSCollector)                                                      *)
(***************************************************************************)
MaxRequests == 2      \* the daily ceiling of the model's collectors
MaxKeys == 2          \* most API keys handed to BatchACSCollector
MaxRuns == 2          \* most collection runs
MaxFailures == 2      \* most responses of a history that are not a table
MaxBatchYears == 2    \* the years of BatchACSCollector.years that are collected
GroupLines == 51      \* estimate lines of table B01001 in its group document

\* self.max_requests_per_day: 500 in both classes; the code only compares
\* the counter with it (>=), and the model counts to a lower ceiling
max_requests_per_day == MaxRequests

\* batch_size of collect_county_data
batch_size == 50

Chatham == <<"C", "h", "a", "t", "h", "a", "m">>
Liberty == <<"L", "i", "b", "e", "r", "t", "y">>
Effingham == <<"E", "f", "f", "i", "n", "g", "h", "a", "m">>
Bryan == <<"B", "r", "y", "a", "n">>

\* self.counties, in the order of the dict
CountyNames == <<Chatham, Liberty, Effingham, Bryan>>

counties ==
    (Chatham :> <<"0", "5", "1">>) @@ (Liberty :> <<"1", "7", "9">>)
        @@ (Effingham :> <<"1", "0", "3">>) @@ (Bryan :> <<"0", "2", "9">>)

GEO_ID == <<"G", "E", "O", "_", "I", "D">>
DP02 == <<"D", "P", "0", "2">>

\* self.year of ComprehensiveACSCollector, self.years of BatchACSCollector
CollectorYears(kind) ==
    IF kind = "comprehensive" THEN <<2023>>
    ELSE SubSeq(<<2017, 2018, 2019, 2020>>, 1, MaxBatchYears)

\* the names of the groups document, as the API lists them
GroupsDoc == <<B19013, DP02, B01001>>

\* sorted(lst) of a list of strings
Sorted(lst) ==
    LET pos(i) == 1 + Cardinality({j \in 1..Len(lst) :
                        \/ StrLess(lst[j], lst[i])
                        \/ (lst[j] = lst[i] /\ j < i)})
    IN  [k \in 1..Len(lst) |-> lst[CHOOSE i \in 1..Len(lst) : pos(i) = k]]

\* discover_all_tables: the names that start with B, C or S, sorted
discover_all_tables(names) ==
    Sorted(SelectSeq(names, LAMBDA name :
        /\ name # <<>>
        /\ \/ startswith(name, <<"B">>)
           \/ startswith(name, <<"C">>)
           \/ startswith(name, <<"S">>)))

\* the keys of data['variables'] of a group document, in its order
GroupDoc(table_id) ==
    IF table_id = B01001
    THEN <<NAME, GEO_ID>> \o [n \in 1..GroupLines |-> VarId(B01001, n, <<"E">>)]
            \o <<VarId(B01001, 1, <<"E", "A">>)>>
    ELSE <<VarId(table_id, 1, <<"E">>), VarId(table_id, 1, <<"M">>)>>

\* 'estimate' if var.endswith('E') else 'margin_of_error' if
\* var.endswith('M') else 'other'
VariableType(var) ==
    IF endswith(var, <<"E">>) THEN "estimate"
    ELSE IF endswith(var, <<"M">>) THEN "margin_of_error"
    ELSE "other"

\* get_table_variables: the variables of the document but NAME and GEO_ID
get_table_variables(doc) ==
    LET kept == SelectSeq(doc, LAMBDA var : var \notin {NAME, GEO_ID})
    IN  [i \in 1..Len(kept) |-> [id |-> kept[i], type |-> VariableType(kept[i])]]

\* the var_list of collect_county_data: the estimates and the margins of
\* error
VarList(variables) ==
    LET kept == SelectSeq(variables,
                    LAMBDA var : var.type \in {"estimate", "margin_of_error"})
    IN  [i \in 1..Len(kept) |-> kept[i].id]

\* the batches of range(0, len(var_list), batch_size)
NumBatches(lst) == (Len(lst) + batch_size - 1) \div batch_size

\* var_list[i:i + batch_size] of batch b
BatchVars(lst, b) ==
    SubSeq(lst, (b - 1) * batch_size + 1, Min(b * batch_size, Len(lst)))

\* the cell the data API answers for a variable: the line number in text,
\* but an empty cell for line 2, null for line 3 and a letter for line 4
CellOf(var) ==
    LET n == DigitsValue(SubSeq(var, Len(var) - 3, Len(var) - 1), 3)
    IN  IF ~IsDigit(var[Len(var) - 1]) THEN StrV(<<"7">>)
        ELSE IF n = 2 THEN StrV(<<>>)
        ELSE IF n = 3 THEN NoneV
        ELSE IF n = 4 THEN StrV(<<"N">>)
        ELSE StrV(IntStr(n))

\* the counties of the rows of a response: Chatham and a county the
\* collectors do not know
ResponseFips == <<counties[Chatham], <<"9", "9", "9">>>>

\* the table the data API answers for get=batch_vars: the header row, then
\* one row per county
DataResponse(batch_vars) ==
    <<[i \in 1..(Len(batch_vars) + 2) |->
          IF i <= Len(batch_vars) THEN batch_vars[i]
          ELSE IF i = Len(batch_vars) + 1 THEN state ELSE county]>>
    \o [r \in 1..Len(ResponseFips) |->
          [i \in 1..(Len(batch_vars) + 2) |->
              IF i <= Len(batch_vars) THEN CellOf(batch_vars[i])
              ELSE IF i = Len(batch_vars) + 1 THEN StrV(<<"1", "3">>)
              ELSE StrV(ResponseFips[r])]]

\* the name of the county of a row: the first name of self.counties with
\* the row's code, None (<<>>) when there is none
CountyName(county_fips) ==
    LET at == {i \in 1..Len(CountyNames) : StrV(counties[CountyNames[i]]) = county_fips}
    IN  IF at = {} THEN <<>>
        ELSE CountyNames[CHOOSE i \in at : \A j \in at : i <= j]

\* the variables of one row: float(value) of every cell that is neither
\* None nor '', the cell itself when float raises
RowValues(row_dict, lst) ==
    LET present == {v \in Range(lst) :
                       /\ v \in DOMAIN row_dict
                       /\ row_dict[v] # NoneV
                       /\ row_dict[v] # StrV(<<>>)}
    IN  [v \in present |->
            LET value == row_dict[v]
                parsed == IF value.k = "str" THEN ParseFloat(value.s)
                          ELSE [ok |-> TRUE, n |-> value.n, d |-> value.d]
            IN  IF parsed.ok THEN FloatV(parsed.n, parsed.d) ELSE value]

\* county_data after the rows data[from..] were parsed into it
RECURSIVE ParseRows(_, _, _, _)
ParseRows(data, lst, from, parsed_data) ==
    IF from > Len(data) THEN parsed_data
    ELSE LET row_dict == DictZip(data[1], data[from])
             county_name == CountyName(Get(row_dict, county, StrV(<<>>)))
             values == RowValues(row_dict, lst)
         IN  ParseRows(data, lst, from + 1,
                 IF county_name = <<>> THEN parsed_data
                 ELSE IF county_name \in DOMAIN parsed_data
                 THEN [parsed_data EXCEPT ![county_name] = Update(@, values)]
                 ELSE parsed_data @@ (county_name :> values))

\* parse_county_data
parse_county_data(data, lst) ==
    IF Len(data) < 2 THEN <<>> ELSE ParseRows(data, lst, 2, <<>>)

\* variant: the values of a county are replaced by those of the batch
MergeBatch_replaced(data, batch_data) ==
    [c \in DOMAIN data \cup DOMAIN batch_data |->
        IF c \notin DOMAIN batch_data THEN data[c] ELSE batch_data[c]]

\* all_data after the loop that merges batch_data into it
MergeBatch(data, batch_data) ==
    [c \in DOMAIN data \cup DOMAIN batch_data |->
        IF c \notin DOMAIN batch_data THEN data[c]
        ELSE IF c \notin DOMAIN data THEN batch_data[c]
        ELSE Update(data[c], batch_data[c])]

\* the rows store_county_data inserts into acs_data
DataRows(year, data) ==
    UNION {{[variable_id |-> v, county_name |-> c, county_fips |-> counties[c],
             year |-> year, value |-> data[c][v], data_type |-> VariableType(v)] :
               v \in DOMAIN data[c]} : c \in DOMAIN data}

\* store_county_data: one INSERT per county and variable; the table has no
\* key but the autoincrement id, so every INSERT adds a row
store_county_data(table, year, data) == table (+) SetToBag(DataRows(year, data))

\* the API keys a BatchACSCollector is constructed with
KeyLists == {[i \in 1..n |-> i] : n \in 1..MaxKeys}

\* get_current_api_key raises "All API keys exhausted!"
KeysExhausted(keys, index) == index >= Len(keys)

\* get_current_api_key: self.api_keys[self.current_key_index]
get_current_api_key(keys, index) == keys[index + 1]

\* switch_to_next_api_key on the counters [current_key_index, requests_made]
switch_to_next_api_key(c) ==
    [current_key_index |-> c.current_key_index + 1, requests_made |-> 0]

\* BatchACSCollector.make_request up to requests.get: the counters with
\* which the request is sent; it never raises before the request
make_request_batch(c) ==
    LET d == IF c.requests_made >= max_requests_per_day
             THEN switch_to_next_api_key(c) ELSE c
    IN  [raised |-> FALSE,
         counters |-> [d EXCEPT !.requests_made = @ + 1]]

\* variant: the ceiling is compared with >, one request late
make_request_comprehensive_late(c) ==
    IF c.requests_made > max_requests_per_day
    THEN [raised |-> TRUE, counters |-> c]
    ELSE [raised |-> FALSE, counters |-> [c EXCEPT !.requests_made = @ + 1]]

\* ComprehensiveACSCollector.make_request up to requests.get: it raises
\* "Daily API limit reached" at the ceiling, and counts the request before
\* it is sent otherwise
make_request_comprehensive(c) ==
    IF c.requests_made >= max_requests_per_day
    THEN [raised |-> TRUE, counters |-> c]
    ELSE [raised |-> FALSE, counters |-> [c EXCEPT !.requests_made = @ + 1]]

\* make_request of the collector that runs
make_request(kind, c) ==
    IF kind = "comprehensive" THEN make_request_comprehensive(c)
    ELSE make_request_batch(c)

\* the counters of the collector
Counters == [current_key_index |-> current_key_index, requests_made |-> requests_made]

\* the entry of `sent` for a request that went out
Request(kind, key, c, ok) ==
    [kind |-> kind, key |-> key, ok |-> ok,
     current_key_index |-> c.current_key_index,
     requests_made |-> c.requests_made]

\* what the remote API may answer: a failure is taken from the budget
Answers(kinds) == {o \in kinds : o = "ok" \/ failures < MaxFailures}

\* where the run goes after the table at table_index: the next table, the
\* next year, or the end of the run
AfterTable ==
    IF table_index < Len(group_tables)
    THEN [step |-> "variables", table_index |-> table_index + 1,
          year_index |-> year_index]
    ELSE IF year_index < Len(CollectorYears(collector))
    THEN [step |-> "discover", table_index |-> 0, year_index |-> year_index + 1]
    ELSE [step |-> "finished", table_index |-> 0, year_index |-> year_index]

\* the collector goes to place p of its run
GoTo(p) ==
    /\ step' = p.step
    /\ table_index' = p.table_index
    /\ year_index' = p.year_index

\* ComprehensiveACSCollector(api_key).run_comprehensive_collection() or
\* BatchACSCollector(api_keys).run_batch_collection() is started, on the
\* database the earlier runs left
StartRun ==
    /\ step \in {"idle", "finished", "raised"}
    /\ runs < MaxRuns
    /\ \E kind \in {"comprehensive", "batch"}, keys \in KeyLists :
          /\ kind = "comprehensive" => keys = <<1>>
          /\ collector' = kind
          /\ api_keys' = keys
    /\ current_key_index' = 0 /\ requests_made' = 0
    /\ step' = "discover" /\ year_index' = 1
    /\ group_tables' = <<>> /\ table_index' = 0
    /\ var_list' = <<>> /\ batch_index' = 0 /\ all_data' = <<>>
    /\ sent' = <<>> /\ batch_log' = <<>> /\ county_data' = <<>>
    /\ runs' = runs + 1
    /\ UNCHANGED <<resolver_vars, pipeline_vars, store_vars, payload_vars, acs_data, failures>>

\* discover_all_tables of the year: an exception of make_request ends the
\* run
Discover ==
    /\ step = "discover"
    /\ LET call == make_request(collector, Counters)
       IN  /\ current_key_index' = call.counters.current_key_index
           /\ requests_made' = call.counters.requests_made
           /\ IF call.raised
              THEN /\ step' = "raised"
                   /\ UNCHANGED <<sent, failures, group_tables, table_index, year_index>>
              ELSE \E o \in Answers({"ok", "error"}) :
                      /\ sent' = Append(sent, Request("groups", 0, call.counters, o = "ok"))
                      /\ failures' = IF o = "ok" THEN failures ELSE failures + 1
                      /\ IF o = "ok"
                         THEN /\ group_tables' = discover_all_tables(GroupsDoc)
                              /\ step' = "variables"
                              /\ table_index' = 1
                              /\ UNCHANGED year_index
                         ELSE /\ step' = "raised"
                              /\ UNCHANGED <<group_tables, table_index, year_index>>
    /\ UNCHANGED <<resolver_vars, pipeline_vars, store_vars, payload_vars, collector, api_keys,
                   var_list, batch_index, all_data, acs_data, batch_log,
                   county_data, runs>>

\* get_table_variables of the table, then collect_county_data up to its
\* loop: an exception is caught by the loop over the tables, which goes on
\* with the next table
TableVariables ==
    /\ step = "variables"
    /\ LET call == make_request(collector, Counters)
           variables == get_table_variables(GroupDoc(group_tables[table_index]))
       IN  /\ current_key_index' = call.counters.current_key_index
           /\ requests_made' = call.counters.requests_made
           /\ IF call.raised
              THEN /\ GoTo(AfterTable)
                   /\ UNCHANGED <<sent, failures, var_list, batch_index, all_data,
                                  batch_log>>
              ELSE \E o \in Answers({"ok", "error"}) :
                      /\ sent' = Append(sent, Request("variables", 0, call.counters, o = "ok"))
                      /\ failures' = IF o = "ok" THEN failures ELSE failures + 1
                      /\ IF o = "ok" /\ VarList(variables) # <<>>
                         THEN /\ var_list' = VarList(variables)
                              /\ batch_index' = 1
                              /\ all_data' = <<>>
                              /\ batch_log' = <<>>
                              /\ step' = "batch"
                              /\ UNCHANGED <<table_index, year_index>>
                         ELSE /\ GoTo(AfterTable)
                              /\ UNCHANGED <<var_list, batch_index, all_data, batch_log>>
    /\ UNCHANGED <<resolver_vars, pipeline_vars, store_vars, payload_vars, collector, api_keys,
                   group_tables, acs_data, county_data, runs>>

\* collect_county_data of BatchACSCollector when no key is left:
\* get_current_api_key raises while the params of the batch are built,
\* outside the try of the loop; the exception leaves collect_county_data
\* and is caught by the loop over the tables
BatchKeysExhausted ==
    /\ step = "batch"
    /\ collector = "batch"
    /\ KeysExhausted(api_keys, current_key_index)
    /\ county_data' = [raised |-> TRUE, data |-> <<>>, batches |-> batch_log,
                       year |-> CollectorYears(collector)[year_index],
                       table |-> group_tables[table_index],
                       var_list |-> var_list]
    /\ GoTo(AfterTable)
    /\ UNCHANGED <<resolver_vars, pipeline_vars, store_vars, payload_vars, collector, api_keys,
                   current_key_index, requests_made, group_tables, var_list,
                   batch_index, all_data, acs_data, sent, batch_log, runs,
                   failures>>

\* one pass of the loop of collect_county_data: the params are built with
\* the current key, make_request is called, the response is parsed and
\* merged, and an exception of the three is caught and the batch skipped;
\* after the last batch all_data is returned and, when it is not empty,
\* stored
Batch ==
    /\ step = "batch"
    /\ ~(collector = "batch" /\ KeysExhausted(api_keys, current_key_index))
    /\ LET batch_vars == BatchVars(var_list, batch_index)
           key  == IF collector = "batch"
                   THEN get_current_api_key(api_keys, current_key_index)
                   ELSE get_current_api_key(api_keys, 0)
           call == make_request(collector, Counters)
           year == CollectorYears(collector)[year_index]
       IN  /\ current_key_index' = call.counters.current_key_index
           /\ requests_made' = call.counters.requests_made
           /\ \E o \in (IF call.raised THEN {"limit"}
                        ELSE Answers({"ok", "short", "error", "malformed"})) :
                 LET data == IF o = "ok" THEN DataResponse(batch_vars)
                             ELSE IF o = "short" THEN SubSeq(DataResponse(batch_vars), 1, 1)
                             ELSE <<>>
                     parsed == o \in {"ok", "short"}
                     batch_data == IF parsed THEN parse_county_data(data, batch_vars)
                                   ELSE <<>>
                     merged == IF parsed THEN MergeBatch(all_data, batch_data)
                               ELSE all_data
                     log == Append(batch_log,
                               [batch |-> batch_index, outcome |-> o,
                                batch_data |-> batch_data, all_data |-> merged])
                 IN  /\ sent' = IF call.raised THEN sent
                                ELSE Append(sent, Request("data", key, call.counters, parsed))
                     /\ failures' = IF o \in {"ok", "limit"} THEN failures
                                    ELSE failures + 1
                     /\ all_data' = merged
                     /\ batch_log' = log
                     /\ IF batch_index < NumBatches(var_list)
                        THEN /\ batch_index' = batch_index + 1
                             /\ UNCHANGED <<step, table_index, year_index, acs_data,
                                            county_data>>
                        ELSE /\ county_data' =
                                   [raised |-> FALSE, data |-> merged, batches |-> log,
                                    year |-> year, table |-> group_tables[table_index],
                                    var_list |-> var_list]
                             /\ acs_data' = IF DOMAIN merged # {}
                                            THEN store_county_data(acs_data, year, merged)
                                            ELSE acs_data
                             /\ GoTo(AfterTable)
                             /\ UNCHANGED batch_index
    /\ UNCHANGED <<resolver_vars, pipeline_vars, store_vars, payload_vars, collector, api_keys,
                   group_tables, var_list, runs>>

NextCollect ==
    \/ StartRun
    \/ Discover
    \/ TableVariables
    \/ Batch
    \/ BatchKeysExhausted

\* no collector was constructed yet and comprehensive_acs_data.db is empty
InitCollect ==
    /\ variables_meta = <<>> /\ include_moe = FALSE
    /\ tokens = <<>> /\ resolved = <<>>
    /\ PipelineIdle

SpecCollect == InitCollect /\ [][NextCollect]_vars

(***************************************************************************)
(* parse_years (server.py): the years of a download request                *)
(***************************************************************************)
MaxParts == 2         \* most comma-separated parts of a years string

\* default of parse_years
DefaultYear == 2023

\* int(str): surrounding whitespace is dropped, then an optional sign and
\* decimal digits, single underscores allowed between digits; anything
\* else raises ValueError (ok = FALSE)
ParseInt(s) ==
    LET t      == strip(s)
        signed == t # <<>> /\ (t[1] = "-" \/ t[1] = "+")
        body   == IF signed THEN SubSeq(t, 2, Len(t)) ELSE t
        digits == SelectSeq(body, LAMBDA c : c # "_")
        okay   == /\ body # <<>>
                  /\ \A i \in 1..Len(body) : IsDigit(body[i]) \/ body[i] = "_"
                  /\ body[1] # "_" /\ body[Len(body)] # "_"
                  /\ \A i \in 1..(Len(body) - 1) : ~(body[i] = "_" /\ body[i + 1] = "_")
        mag    == IF okay THEN DigitsValue(digits, Len(digits)) ELSE 0
    IN  [ok |-> okay, n |-> IF signed /\ t[1] = "-" THEN -mag ELSE mag]

\* str(value) of a value that is neither an int nor None; a list is
\* held by the text str() gives it
PyStr(v) == IF v.k \in {"str", "list"} THEN v.s ELSE FloatStr(v)

\* part.split('-', 1)
SplitOnce(part, sep) ==
    LET at == CHOOSE i \in 1..Len(part) :
                  part[i] = sep /\ \A j \in 1..(i - 1) : part[j] # sep
    IN  <<SubSeq(part, 1, at - 1), SubSeq(part, at + 1, Len(part))>>

\* the years one part of the string adds to the set: the years of a range
\* a-b, ends exchanged when a > b, or the one year; none when the part is
\* empty or int() raises
PartYears(raw) ==
    LET part == strip(raw)
    IN  IF part = <<>> THEN {}
        ELSE IF Contains(part, "-")
        THEN LET ab    == SplitOnce(part, "-")
                 start == ParseInt(strip(ab[1]))
                 end   == ParseInt(strip(ab[2]))
             IN  IF ~(start.ok /\ end.ok) THEN {}
                 ELSE IF start.n > end.n THEN end.n..start.n
                 ELSE start.n..end.n
        ELSE LET year == ParseInt(part)
             IN  IF year.ok THEN {year.n} ELSE {}

\* sorted(...) of a set of integers
SortedInts(S) ==
    [i \in 1..Cardinality(S) |->
        CHOOSE y \in S : Cardinality({x \in S : x < y}) = i - 1]

\* parse_years(value, default)
parse_years(v, default) ==
    IF v.k = "int" THEN <<v.n>>
    ELSE IF v.k = "none" THEN <<default>>
    ELSE LET s     == strip(PyStr(v))
             parts == Split(s, ",")
             all   == UNION {PartYears(parts[i]) : i \in 1..Len(parts)}
             out   == SortedInts({y \in all : 2010 <= y /\ y <= 2099})
         IN  IF s = <<>> \/ out = <<>> THEN <<default>> ELSE out

\* parts of a years string: years inside and outside 2010..2099, ranges in
\* both orders and across both ends, and parts int() does not read
YearParts ==
    {<<"2", "0", "1", "9">>,
     <<" ", "2", "0", "2", "1", " ">>,
     <<"1", "9", "9", "9">>,
     <<"2", "0", "1", "2", "-", "2", "0", "1", "0">>,
     <<"2", "0", "0", "9", " ", "-", " ", "2", "0", "1", "1">>,
     <<"2", "0", "9", "8", "-", "2", "1", "0", "1">>,
     <<"2", "0", "2", "0", "-">>,
     <<"2", "0", "1", "0", "-", "2", "0", "1", "1", "-", "2", "0", "1", "2">>,
     <<"2", "_", "0", "2", "2">>,
     <<"x">>,
     <<" ">>,
     <<>>}

\* the strings of at most MaxParts parts
YearStrings ==
    UNION {{Join(parts, <<",">>) : parts \in [1..n -> YearParts]} : n \in 1..MaxParts}

\* the values parse_years is called with: payload.get("years",
\* payload.get("year", 2023)) of a JSON payload
YearValues ==
    {IntV(n) : n \in {1999, 2009, 2010, 2023, 2099, 2100}}
        \cup {NoneV, FloatV(2020, 1)}
        \cup {[k |-> "list", n |-> 0, d |-> 1,
               s |-> <<"[", "2", "0", "2", "0", ",", " ", "2", "0", "2", "1", "]">>]}
        \cup {StrV(s) : s \in YearStrings}

\* download reads the years of its payload
ParseYears ==
    /\ parsed_years = <<>>
    /\ parsed_years' = [out |-> parse_years(years_value, DefaultYear)]
    /\ UNCHANGED <<resolver_vars, pipeline_vars, store_vars, collector_vars,
                   years_value, question, conversation_history, chat>>

NextYears == ParseYears

\* a download request arrived and its years were not read yet
InitYears ==
    /\ variables_meta = <<>> /\ include_moe = FALSE
    /\ tokens = <<>> /\ resolved = <<>>
    /\ years = <<>> /\ geo = "county" /\ tables = <<>> /\ format_type = "zip"
    /\ calculations = <<>> /\ census = <<>>
    /\ pc = "idle" /\ yi = 0 /\ bad_years = <<>>
    /\ batches = <<>> /\ bi = 0 /\ headers_all = <<>> /\ rows_index = <<>>
    /\ artifacts = <<>> /\ saved = {} /\ response = NoResponse
    /\ meta_requests = <<>> /\ data_requests = <<>> /\ validated = <<>>
    /\ received = <<>>
    /\ StoreIdle
    /\ CollectorIdle
    /\ years_value \in YearValues /\ parsed_years = <<>>
    /\ question = <<>> /\ conversation_history = <<>> /\ chat = <<>>

SpecYears == InitYears /\ [][NextYears]_vars

(***************************************************************************)
(* ask_chatgpt (server.py): the year and the county of a question          *)
(***************************************************************************)
MaxHistory == 2       \* most messages of a conversation history

\* str.lower() on one character
LowerChar(c) ==
    IF Code[c] >= 65 /\ Code[c] <= 90
    THEN CHOOSE l \in DOMAIN Code : Code[l] = Code[c] + 32
    ELSE c

lower(s) == [i \in 1..Len(s) |-> LowerChar(s[i])]

IsLetter(c) == LowerChar(c) # c \/ UpperChar(c) # c

\* str.title(): a letter is upper case after a character that is no
\* letter, lower case after a letter
title(s) ==
    [i \in 1..Len(s) |->
        IF i = 1 \/ ~IsLetter(s[i - 1]) THEN UpperChar(s[i]) ELSE LowerChar(s[i])]

\* `sub in text` of two strings
IsIn(sub, text) ==
    \E i \in 0..(Len(text) - Len(sub)) : SubSeq(text, i + 1, i + Len(sub)) = sub

\* the years ask_chatgpt looks for, in the order of its list
ChatYears == <<2017, 2018, 2019, 2020, 2021, 2022, 2023>>

\* the counties ask_chatgpt looks for, in the order of its list
ChatCounties == <<lower(Chatham), lower(Liberty), lower(Bryan), lower(Effingham)>>

\* the terms of a question too general to answer without a location
GeneralTerms ==
    <<<<"i", "n", "c", "o", "m", "e">>,
      <<"p", "o", "p", "u", "l", "a", "t", "i", "o", "n">>,
      <<"h", "o", "u", "s", "i", "n", "g">>,
      <<"e", "d", "u", "c", "a", "t", "i", "o", "n">>,
      <<"e", "m", "p", "l", "o", "y", "m", "e", "n", "t">>>>

\* the words that name a location other than one of the counties
LocationWords ==
    <<<<"c", "o", "u", "n", "t", "y">>,
      <<"g", "e", "o", "r", "g", "i", "a">>,
      <<"g", "a">>,
      <<"s", "t", "a", "t", "e">>,
      <<"u", "s">>,
      <<"u", "n", "i", "t", "e", "d", " ", "s", "t", "a", "t", "e", "s">>>>

\* the first element of the list that satisfies the test, <<>> (None) when
\* none does
FirstOf(lst, found) ==
    LET at == {i \in 1..Len(lst) : lst[i] \in found}
    IN  IF at = {} THEN <<>>
        ELSE <<lst[CHOOSE i \in at : \A j \in at : i <= j]>>

\* the loop over the years: the first year of the list whose digits are
\* in the text, as a one-element sequence; <<>> when there is none
YearIn(text) ==
    FirstOf(ChatYears, {y \in Range(ChatYears) : IsIn(IntStr(y), text)})

\* the loop over the counties: county.title() of the first county of the
\* list that is in the text; <<>> when there is none
CountyIn(text) ==
    LET first == FirstOf(ChatCounties, {c \in Range(ChatCounties) : IsIn(c, text)})
    IN  IF first = <<>> THEN <<>> ELSE <<title(first[1])>>

\* the loop over conversation_history: what is still missing is taken
\* from the first message that holds it
RECURSIVE FromHistory(_, _, _)
FromHistory(history, i, found) ==
    IF i > Len(history) THEN found
    ELSE LET msg_lower == lower(history[i])
         IN  FromHistory(history, i + 1,
                 [year   |-> IF found.year = <<>> THEN YearIn(msg_lower)
                             ELSE found.year,
                  county |-> IF found.county = <<>> THEN CountyIn(msg_lower)
                             ELSE found.county])

\* the first extraction: the question, then the history when the year or
\* the county is missing
ExtractContext(q, history) ==
    LET here == [year |-> YearIn(lower(q)), county |-> CountyIn(lower(q))]
    IN  IF here.year = <<>> \/ here.county = <<>>
        THEN FromHistory(history, 1, here)
        ELSE here

\* the second extraction, before the data values are read: the defaults,
\* replaced by what the question holds
ExtractFromQuestion(q) ==
    LET y == YearIn(lower(q))
        c == CountyIn(lower(q))
    IN  [year   |-> IF y = <<>> THEN 2023 ELSE y[1],
         county |-> IF c = <<>> THEN Chatham ELSE c[1]]

\* the question is short, holds a general term and names no location
NeedsLocation(q) ==
    /\ Len(strip(q)) < 20
    /\ \E i \in 1..Len(GeneralTerms) : IsIn(GeneralTerms[i], lower(q))
    /\ \A i \in 1..Len(ChatCounties) : ~IsIn(ChatCounties[i], lower(q))
    /\ \A i \in 1..Len(LocationWords) : ~IsIn(LocationWords[i], lower(q))

MedianHouseholdIncome ==
    <<"m", "e", "d", "i", "a", "n", " ", "h", "o", "u", "s", "e", "h", "o", "l", "d", " ", "i", "n", "c", "o", "m", "e">>

\* the search_variables calls of the handler: the id B19013_001E and then
\* the phrase for a question on median household income, the question
\* itself otherwise
ChatSearches(q, table) ==
    IF IsIn(MedianHouseholdIncome, lower(q))
    THEN IF \E rows \in SearchResults(table, VarId(B19013, 1, <<"E">>), 1) : rows # <<>>
         THEN <<[term |-> VarId(B19013, 1, <<"E">>), limit |-> 1]>>
         ELSE <<[term |-> VarId(B19013, 1, <<"E">>), limit |-> 1],
                [term |-> MedianHouseholdIncome, limit |-> 2]>>
    ELSE <<[term |-> q, limit |-> 3]>>

\* what ask_chatgpt makes of a question and a history, up to the prompt
ask_chatgpt(q, history) ==
    LET found  == ExtractContext(q, history)
        used   == ExtractFromQuestion(q)
    IN  IF q = <<>> THEN [outcome |-> "no question"]
        ELSE IF NeedsLocation(q) THEN [outcome |-> "clarification"]
        ELSE IF found.year = <<>> /\ found.county = <<>>
        THEN [outcome |-> "clarification"]
        ELSE [outcome |-> "prompt",
              lookup  |-> [year |-> used.year, county_name |-> used.county],
              prompt  |-> [county |-> used.county, year |-> used.year]]

\* the questions of the model
Questions ==
    {<<"m", "e", "d", "i", "a", "n", " ", "h", "o", "u", "s", "e", "h", "o", "l", "d", " ", "i", "n", "c", "o", "m", "e">>,
     <<"I", "n", "c", "o", "m", "e", " ", "i", "n", " ", "L", "i", "b", "e", "r", "t", "y", " ", "2", "0", "1", "9">>,
     <<"w", "h", "a", "t", " ", "a", "b", "o", "u", "t", " ", "2", "0", "2", "1", "?">>,
     <<"a", "n", "d", " ", "i", "n", " ", "b", "r", "y", "a", "n", "?">>,
     <<"p", "o", "p", "u", "l", "a", "t", "i", "o", "n">>,
     <<"h", "o", "w", " ", "d", "i", "d", " ", "p", "o", "v", "e", "r", "t", "y", " ", "c", "h", "a", "n", "g", "e", " ", "t", "h", "e", "r", "e", "?">>,
     <<" ">>,
     <<"r", "e", "n", "t", " ", "i", "n", " ", "2", "0", "2", "3", " ", "a", "n", "d", " ", "2", "0", "1", "7">>}

\* the contents of the messages of a history
Messages ==
    {<<"m", "e", "d", "i", "a", "n", " ", "h", "o", "u", "s", "e", "h", "o", "l", "d", " ", "i", "n", "c", "o", "m", "e", " ", "i", "n", " ", "l", "i", "b", "e", "r", "t", "y", " ", "c", "o", "u", "n", "t", "y">>,
     <<"s", "h", "o", "w", " ", "m", "e", " ", "2", "0", "1", "9", " ", "d", "a", "t", "a">>,
     <<"I", "n", " ", "2", "0", "2", "1", " ", "t", "h", "e", " ", "v", "a", "l", "u", "e", " ", "f", "o", "r", " ", "E", "f", "f", "i", "n", "g", "h", "a", "m", " ", "w", "a", "s", " ", "7", "0", ",", "0", "0", "0">>,
     <<"t", "h", "a", "n", "k", "s">>,
     <<"C", "h", "a", "t", "h", "a", "m", " ", "2", "0", "2", "3">>}

Histories == UNION {[1..n -> Messages] : n \in 0..MaxHistory}

\* POST /api/ask-chatgpt with a question and a history
AskChatGPT ==
    /\ chat = <<>>
    /\ chat' = ask_chatgpt(question, conversation_history)
    /\ IF chat'.outcome = "prompt"
       THEN LET calls == ChatSearches(question, variables_table)
                last  == calls[Len(calls)]
            IN  /\ searched' = last
                /\ \E rows \in SearchResults(variables_table, last.term, last.limit) :
                      search_results' = [i \in 1..Len(rows) |-> Selected(rows[i])]
                /\ open_conns' = Close(Connect(open_conns))
                /\ lookup' = <<>>
       ELSE UNCHANGED <<searched, search_results, open_conns, lookup>>
    /\ UNCHANGED <<resolver_vars, pipeline_vars, collector_vars, variables_table,
                   refreshes, years_value, parsed_years, question,
                   conversation_history>>

NextChat == AskChatGPT

\* a question arrived with the history of its conversation
InitChat ==
    /\ variables_meta = <<>> /\ include_moe = FALSE
    /\ tokens = <<>> /\ resolved = <<>>
    /\ years = <<>> /\ geo = "county" /\ tables = <<>> /\ format_type = "zip"
    /\ calculations = <<>> /\ census = <<>>
    /\ pc = "idle" /\ yi = 0 /\ bad_years = <<>>
    /\ batches = <<>> /\ bi = 0 /\ headers_all = <<>> /\ rows_index = <<>>
    /\ artifacts = <<>> /\ saved = {} /\ response = NoResponse
    /\ meta_requests = <<>> /\ data_requests = <<>> /\ validated = <<>>
    /\ received = <<>>
    /\ StoreIdle
    /\ CollectorIdle
    /\ years_value = NoneV /\ parsed_years = <<>>
    /\ question \in {strip(q) : q \in Questions}
    /\ conversation_history \in Histories
    /\ chat = <<>>

SpecChat == InitChat /\ [][NextChat]_vars

(***************************************************************************)
(* Properties of the resolver                                              *)
(***************************************************************************)
\* the token as the resolver matches it
Normal(raw) == strip(upper(raw))

WithoutToken(toks, i) == SubSeq(toks, 1, i - 1) \o SubSeq(toks, i + 1, Len(toks))

\* the set resolved from the token list without its i-th token
RestOf(i) ==
    Range(resolve_requested_variables(variables_meta, WithoutToken(tokens, i), include_moe))

IsWildcard(t) == endswith(t, <<"*">>)
IsStem(t)     == ~IsWildcard(t) /\ Contains(t, "_")
IsBare(t)     == t # <<>> /\ ~Contains(t, "*") /\ ~Contains(t, "_")

\* catalog ids starting with P_ and ending in E, or in M when the flag is set
TableIds(P) ==
    {v \in DOMAIN variables_meta :
        /\ startswith(v, P \o <<"_">>)
        /\ (endswith(v, <<"E">>) \/ (include_moe /\ endswith(v, <<"M">>)))}

Present(ids) == ids \cap DOMAIN variables_meta

ExampleCatalog ==
    { VarId(B01001, 1, <<"E">>), VarId(B01001, 2, <<"E">>), VarId(B01001, 2, <<"M">>) }

\* C1: the resolver's result is strictly ascending (sorted, no duplicates)
\* and every element of it is an identifier of the supplied catalog.
C1_SortedUniqueInCatalog ==
    /\ \A i \in 1..(Len(resolved) - 1) : StrLess(resolved[i], resolved[i + 1])
    /\ \A i \in 1..Len(resolved) : resolved[i] \in DOMAIN variables_meta

\* witness of C1: two tokens resolved the same identifier and the list that
\* was returned holds it once, next to another identifier.
C1_Witness ==
    /\ Len(tokens) = 2
    /\ Len(resolved) >= 2
    /\ Len(resolve_unsorted(variables_meta, tokens, include_moe)) > Len(resolved)

\* the prefix of a wildcard token as the claim words it: the `*` and any
\* trailing underscores removed
C2_StatedPrefix(t) == rstrip(SubSeq(t, 1, Len(t) - 1), "_")

\* the prefix as amended: surrounding whitespace is removed as well
C2_TrimmedPrefix(t) == strip(C2_StatedPrefix(t))

C2_Example ==
    (DOMAIN variables_meta = ExampleCatalog /\ tokens = <<B01001 \o <<"_", "*">>>>)
        => resolved = IF include_moe
                      THEN <<VarId(B01001, 1, <<"E">>), VarId(B01001, 2, <<"E">>),
                             VarId(B01001, 2, <<"M">>)>>
                      ELSE <<VarId(B01001, 1, <<"E">>), VarId(B01001, 2, <<"E">>)>>

\* C2 as stated: a token ending in `*` with prefix P (the `*` and trailing
\* underscores removed) contributes exactly the catalog ids that start with
\* P_ and end in E, plus those ending in M iff include_moe is set.
C2_WildcardAsStated ==
    /\ \A i \in 1..Len(tokens) :
          IsWildcard(Normal(tokens[i])) =>
              Range(resolved) = RestOf(i) \cup TableIds(C2_StatedPrefix(Normal(tokens[i])))
    /\ C2_Example

\* C2 amended: the prefix P is the token with the `*`, any trailing
\* underscores and then any surrounding whitespace removed; the token
\* contributes exactly the catalog ids that start with P_ and end in E, plus
\* those ending in M iff include_moe is set.
C2_WildcardTrimmed ==
    /\ \A i \in 1..Len(tokens) :
          IsWildcard(Normal(tokens[i])) =>
              Range(resolved) = RestOf(i) \cup TableIds(C2_TrimmedPrefix(Normal(tokens[i])))
    /\ C2_Example

\* witness of C2: a wildcard token resolved estimates and a margin of error
\* of its table with the flag set.
C2_Witness ==
    /\ include_moe
    /\ \E i \in 1..Len(tokens) :
          /\ IsWildcard(Normal(tokens[i]))
          /\ VarId(B01001, 1, <<"E">>) \in Range(resolved)
          /\ VarId(B01001, 2, <<"M">>) \in Range(resolved)
          /\ RestOf(i) = {}

\* C3: a bare token T (no underscore, no `*`) contributes only T_001E, and
\* T_001M when include_moe is set, each only if it is in the catalog, and no
\* other line of table T; `B01001` with MOE=false against the example
\* catalog yields exactly [B01001_001E].
C3_BareTokenTotalOnly ==
    /\ \A i \in 1..Len(tokens) :
          LET T == Normal(tokens[i])
          IN  IsBare(T) =>
                Range(resolved) =
                    RestOf(i) \cup Present({T \o <<"_", "0", "0", "1", "E">>})
                              \cup (IF include_moe
                                    THEN Present({T \o <<"_", "0", "0", "1", "M">>})
                                    ELSE {})
    /\ (DOMAIN variables_meta = ExampleCatalog /\ tokens = <<B01001>> /\ ~include_moe)
          => resolved = <<VarId(B01001, 1, <<"E">>)>>

\* witness of C3: a bare token alone resolved the total line of a table whose
\* catalog also has line 002.
C3_Witness ==
    /\ Len(tokens) = 1
    /\ IsBare(Normal(tokens[1]))
    /\ VarId(B01001, 2, <<"E">>) \in DOMAIN variables_meta
    /\ resolved = <<VarId(B01001, 1, <<"E">>)>>

\* C4: a token containing an underscore is a stem S: it contributes S+E if
\* that id is in the catalog and, with include_moe, S+M if that is in the
\* catalog; a stem whose E id is not in the catalog contributes nothing, for
\* either value of the flag.
C4_StemToken ==
    \A i \in 1..Len(tokens) :
        LET S == Normal(tokens[i])
        IN  IsStem(S) =>
              IF S \o <<"E">> \in DOMAIN variables_meta
              THEN Range(resolved) =
                       RestOf(i) \cup {S \o <<"E">>}
                                 \cup (IF include_moe THEN Present({S \o <<"M">>}) ELSE {})
              ELSE Range(resolved) = RestOf(i)

\* the normalised, non-empty tokens of a list, as a set
NormalSet(toks) == {Normal(toks[i]) : i \in 1..Len(toks)} \ {<<>>}

\* C5: the result depends only on the set of upper-cased, trimmed, non-empty
\* tokens: a call whose token list has the same such set as the previous
\* call's (reordered, repeated, re-cased or blank tokens added) returns the
\* identical list.
C5_DependsOnNormalSet ==
    [][NormalSet(tokens') = NormalSet(tokens) => resolved' = resolved]_vars

\* witness of C5: a list with a lower-case token and a blank token resolved
\* to a non-empty result.
C5_Witness ==
    /\ Len(tokens) = 2
    /\ \E i \in 1..2 : tokens[i] # <<>> /\ Normal(tokens[i]) = <<>>
    /\ \E i \in 1..2 : Normal(tokens[i]) # <<>> /\ tokens[i] # Normal(tokens[i])
    /\ resolved # <<>>

(***************************************************************************)
(* Properties of download and build_csv_for_year                           *)
(***************************************************************************)
YearsValidated(outcome) ==
    {validated[i].year : i \in {j \in 1..Len(validated) : validated[j].outcome = outcome}}

YearsBuilt == {artifacts[i].year : i \in 1..Len(artifacts)}

YearsDelivered == {response.files[i].year : i \in 1..Len(response.files)}

IndexKeys == {rows_index[i].key : i \in 1..Len(rows_index)}

ReceivedAt(key) == {i \in 1..Len(received) : received[i].key = key}

\* the union of the fields of the rows received under a key, a later row's
\* value standing for a field that several rows carry
UnionOfReceived(key) ==
    LET at == ReceivedAt(key)
    IN  [f \in UNION {DOMAIN received[i].rec : i \in at} |->
            LET having == {i \in at : f \in DOMAIN received[i].rec}
            IN  received[CHOOSE i \in having : \A j \in having : j <= i].rec[f]]

\* C7: after any sequence of batch responses of a year has been merged, the
\* row set holds exactly one row per geography key seen in a response, and
\* that row's fields are the union of the fields of every batch row with
\* the key, a later batch's value winning on a shared field.
C7_MergedByKey ==
    pc \in {"fetch", "finish"}
        => /\ \A i, j \in 1..Len(rows_index) :
                 rows_index[i].key = rows_index[j].key => i = j
           /\ IndexKeys = {received[i].key : i \in 1..Len(received)}
           /\ \A i \in 1..Len(rows_index) :
                 rows_index[i].rec = UnionOfReceived(rows_index[i].key)

\* witness of C7: two batches answered for key (13, 051) with disjoint
\* variables and different NAME texts; the row set holds one row with the
\* variables of both and the later NAME.
C7_Witness ==
    /\ pc = "finish"
    /\ Len(received) = 2
    /\ received[1].key = <<StrV(<<"1", "3">>), StrV(<<"0", "5", "1">>)>>
    /\ received[2].key = received[1].key
    /\ received[1].rec[NAME] # received[2].rec[NAME]
    /\ Len(rows_index) = 1
    /\ VarId(B01001, 1, <<"E">>) \in DOMAIN rows_index[1].rec
    /\ VarId(B01001, TableLines, <<"E">>) \in DOMAIN rows_index[1].rec
    /\ VarId(B01001, TableLines, <<"E">>) \notin DOMAIN received[1].rec
    /\ rows_index[1].rec[NAME] = received[2].rec[NAME]

FailedRequests == {i \in 1..Len(data_requests) : ~data_requests[i].ok}

RECURSIVE C9_After(_)
C9_After(n) ==
    IF n = 0 THEN [h |-> headers_all, r |-> rows_index]
    ELSE LET before == C9_After(n - 1)
             calc   == calculations[n]
         IN  IF calc.numerator \in Range(before.h) /\ calc.denominator \in Range(before.h)
             THEN ApplyCalculation(calc, before)
             ELSE before

\* C9: a derived-column spec whose numerator or denominator is not in the
\* current header list leaves the header list and every row unchanged; no
\* error is raised, the remaining specs are applied and the artifact is
\* rendered.
C9_MissingOperandSkipped ==
    [][pc = "finish"
          => /\ headers_all' = C9_After(Len(calculations)).h
             /\ rows_index' = C9_After(Len(calculations)).r
             /\ pc' \in {"meta", "done"}
             /\ Len(artifacts') = Len(artifacts) + 1
             /\ Range(artifacts'[Len(artifacts')].fields) \ {NAME} \subseteq Range(headers_all')
             /\ (pc' = "done" => response'.status = 200)]_vars

\* witness of C9: a request whose first spec lacks its numerator and whose
\* second spec is valid was answered with the second column only.
C9_Witness ==
    /\ pc = "done"
    /\ response.status = 200
    /\ calculations = <<MissingNum, RatioDiv>>
    /\ Ratio \in Range(headers_all)
    /\ Share \notin Range(headers_all)
    /\ \A i \in 1..Len(rows_index) : Share \notin DOMAIN rows_index[i].rec

\* a spec that is applied, whose output is not recomputed by a later spec
\* and whose operands are no spec's output
C10_SettledDivision(n) ==
    LET calc == calculations[n]
    IN  /\ calc.operator = "div"
        /\ calc.numerator \in Range(headers_all)
        /\ calc.denominator \in Range(headers_all)
        /\ \A m \in 1..Len(calculations) :
              /\ calculations[m].name \notin {calc.numerator, calc.denominator}
              /\ (m > n => calculations[m].name # calc.name)

\* C10: for a division spec, every row whose denominator value is 0 gets
\* the value 0 under the output name, a row with a non-zero denominator
\* gets numerator divided by denominator, and no error is raised.
C10_DivisionByZeroIsZero ==
    [][pc = "finish"
          => /\ pc' \in {"meta", "done"}
             /\ \A n \in 1..Len(calculations) :
                   C10_SettledDivision(n) =>
                     \A i \in 1..Len(rows_index) :
                        LET calc == calculations[n]
                            num  == Coerce(Get(rows_index[i].rec, calc.numerator, IntV(0)))
                            den  == Coerce(Get(rows_index[i].rec, calc.denominator, IntV(0)))
                            out  == rows_index'[i].rec[calc.name]
                        IN  /\ out.k \in {"int", "float"}
                            /\ (den.ok /\ den.n = 0) => out.n = 0
                            /\ (den.ok /\ den.n # 0 /\ num.ok)
                                  => out.n * den.n * num.d = num.n * den.d * out.d]_vars

\* witness of C10: a division was computed over a row whose denominator is
\* 0 and a row whose denominator is not.
C10_Witness ==
    /\ pc = "done"
    /\ response.status = 200
    /\ calculations = <<RatioDiv>>
    /\ \E i, j \in 1..Len(rows_index) :
          /\ rows_index[i].rec[Denominator] = StrV(<<"0">>)
          /\ rows_index[i].rec[Ratio] = IntV(0)
          /\ rows_index[j].rec[Denominator] = StrV(<<"4">>)
          /\ rows_index[j].rec[Ratio] = FloatV(5, 2)

(***************************************************************************)
(* Properties of the combined format, the renderer and the validation      *)
(***************************************************************************)
\* the rows of a CSV text as a reader sees them: the text is cut at every
\* \n and the \r before it is dropped
TextRows(text) ==
    LET ls == Split(text, "\n")
    IN  [i \in 1..Len(ls) |-> rstrip(ls[i], "\r")]

\* the text of data row j of an artifact
ArtifactRowText(art, j) ==
    CsvRow([c \in 1..Len(art.rows[j]) |-> CellText(art.rows[j][c])])

\* the number of data rows of the artifacts before the k-th
RECURSIVE RowsBefore(_, _)
RowsBefore(files, k) ==
    IF k <= 1 THEN 0 ELSE RowsBefore(files, k - 1) + Len(files[k - 1].rows)

\* C11: the combined artifact of N years holds one header row, the first
\* year's header prefixed with the year column, and then the data rows of
\* every year in requested-year order, each prefixed with its year; when
\* every year produced R rows these are exactly N x R data rows.
C11_CombinedRows ==
    (response.status = 200 /\ response.kind = "combined") =>
        LET files == response.files
            rows  == TextRows(response.body)
            N     == Len(files)
        IN  /\ N = Len(years)
            /\ \A k \in 1..N : files[k].year = years[k]
            /\ Len(rows) = 1 + RowsBefore(files, N + 1)
            /\ (\A k \in 1..N : Len(files[k].rows) = Len(files[1].rows))
                   => Len(rows) = 1 + N * Len(files[1].rows)
            /\ rows[1] = <<"y", "e", "a", "r", ",">> \o CsvRow(files[1].header)
            /\ \A k \in 1..N : \A j \in 1..Len(files[k].rows) :
                   rows[1 + RowsBefore(files, k) + j]
                      = IntStr(years[k]) \o <<",">> \o ArtifactRowText(files[k], j)

\* witness of C11: two years of two rows each were combined, with a quoted
\* NAME cell and a derived column
C11_Witness ==
    /\ response.status = 200 /\ response.kind = "combined"
    /\ Len(response.files) = 2
    /\ \A k \in 1..2 : Len(response.files[k].rows) = 2
    /\ Len(TextRows(response.body)) = 5
    /\ Contains(response.body, "\"")
    /\ calculations # <<>>

\* the position of a geography field in the canonical order
GeoRank(f) == CHOOSE i \in 1..Len(GeoLevels) : GeoLevels[i] = f

\* the columns F are ordered as C12 says, for the header list H
ColumnsInOrder(F, H) ==
    LET g == Cardinality(Range(H) \cap Range(GeoLevels))
    IN  /\ Len(F) >= g + 1
        /\ Range(F) = Range(H) \cup {NAME}
        /\ \A i \in 1..Len(F) : \A j \in 1..Len(F) : i # j => F[i] # F[j]
        /\ \A i \in 1..g : F[i] \in Range(GeoLevels)
        /\ \A i \in 1..g : \A j \in 1..g : i < j => GeoRank(F[i]) < GeoRank(F[j])
        /\ F[g + 1] = NAME
        /\ \A i \in (g + 2)..Len(F) : \A j \in (g + 2)..Len(F) :
               i < j => StrLess(F[i], F[j])

\* C12: the columns of a rendered artifact are the geography fields present
\* in the headers in the order state, county, tract, block group, then
\* NAME, then every other field in ascending order, each field once; every
\* data row has one cell per column, the record's value of that column.
C12_ColumnOrder ==
    (pc = "done" /\ response.status = 200) =>
        LET art == artifacts[Len(artifacts)]
        IN  /\ ColumnsInOrder(art.fields, headers_all)
            /\ Len(art.header) = Len(art.fields)
            /\ Len(art.rows) = Len(rows_index)
            /\ \A i \in 1..Len(art.rows) :
                   /\ Len(art.rows[i]) = Len(art.fields)
                   /\ \A j \in 1..Len(art.fields) :
                          art.rows[i][j]
                             = Get(rows_index[i].rec, art.fields[j], StrV(<<>>))

\* witness of C12: an artifact at tract level whose derived column sorts
\* before the variable ids although it was added to the headers last
C12_Witness ==
    /\ pc = "done" /\ response.status = 200
    /\ artifacts[1].fields = <<state, county, tract, NAME, Age, Numerator, Denominator, Ratio>>
    /\ headers_all[Len(headers_all)] = Age
    /\ Len(artifacts[1].rows) = 2

\* a row holds the whole phrase of the last search in one of its columns
MatchesPhrase(row) == AnyColumnLike(row, Around(searched.term))

\* the last search returned the phrase matches before the word matches
PhraseMatchesFirst ==
    searched # <<>> =>
        /\ \A i \in 1..Len(search_results) : \A j \in 1..Len(search_results) :
               (i < j /\ MatchesPhrase(search_results[j]))
                   => MatchesPhrase(search_results[i])
        /\ (\E i \in 1..Len(search_results) : ~MatchesPhrase(search_results[i]))
               => \A row \in variables_table :
                      MatchesPhrase(row)
                          => \E i \in 1..Len(search_results) :
                                 search_results[i].id = row.id

\* C13: in what search_variables returns, every row that matches the
\* entire query phrase comes before any row that matches only the query
\* words, and a word-only row is returned only when every phrase match of
\* the table is returned.
C13_PhraseBeforeWords ==
    [][refreshes' = refreshes => PhraseMatchesFirst']_vars

\* witness of C13: "household income" returned the row named "Median
\* household income" first and a row holding the words apart last
C13_Witness ==
    /\ searched # <<>> /\ searched.term = QPhrase
    /\ Len(search_results) = 3
    /\ search_results[1].name = MedianIncome
    /\ MatchesPhrase(search_results[2])
    /\ ~MatchesPhrase(search_results[3])
    /\ search_results[3].name = IncomeBySize

\* the refreshes that stored a response holding the id v
StoredAt(v) ==
    {i \in 1..Len(refreshes) : refreshes[i].ok /\ v \in DOMAIN refreshes[i].doc}

\* the row the most recent such refresh wrote for v
LatestRow(v) ==
    LET i == CHOOSE k \in StoredAt(v) : \A j \in StoredAt(v) : j <= k
    IN  TableRow(v, refreshes[i].doc[v], refreshes[i].year)

\* the table holds one row per id ever stored, the row of the most recent
\* refresh whose response held the id
CatalogIsLatest ==
    /\ \A a \in variables_table : \A b \in variables_table : a.id = b.id => a = b
    /\ variables_table =
          {LatestRow(v) : v \in {x \in UNION {DOMAIN Doc(y) : y \in StoreYears} :
                                    StoredAt(x) # {}}}

\* a refresh that stored the same year and response as the refresh before
RepeatedRefresh ==
    /\ Len(refreshes) >= 1
    /\ refreshes' = Append(refreshes, refreshes[Len(refreshes)])
    /\ refreshes[Len(refreshes)].ok

\* C14: after any sequence of refreshes the table holds at most one row
\* per variable id, each row with the year and metadata of the most recent
\* refresh whose response held the id (ids absent from a later response
\* keep their row); refreshing again with the same year and response
\* leaves the table unchanged.
C14_UpsertById ==
    [][/\ CatalogIsLatest'
       /\ RepeatedRefresh => variables_table' = variables_table]_vars

\* witness of C14: the 2023 refresh was followed by the 2022 refresh, which
\* replaced the row of B19013_001E and kept the rows the 2022 response
\* does not hold
C14_Witness ==
    /\ Len(refreshes) = 2
    /\ refreshes[1].ok /\ refreshes[1].year = 2023
    /\ refreshes[2].ok /\ refreshes[2].year = 2022
    /\ Cardinality(variables_table) = 4
    /\ \E row \in variables_table :
          row.id = VarId(B19013, 1, <<"E">>) /\ row.year = 2022 /\ row.name = IncomeMedian
    /\ \E row \in variables_table :
          row.id = VarId(B01001, 1, <<"E">>) /\ row.year = 2023

\* what build_csv_for_year returns for the year being finished: the
\* filename and the rendered artifact
ReturnedArtifact ==
    LET st  == ApplyCalculations(calculations,
                   [h |-> headers_all, r |-> rows_index], Len(calculations))
        out == Render(variables_meta, st.h, st.r)
    IN  [year |-> years[yi], filename |-> Filename(years[yi]),
         header |-> out.header, fields |-> out.fields, rows |-> out.rows]

\* C15: whether or not the copy under csv-downloads can be written,
\* build_csv_for_year returns the filename and the complete artifact and
\* raises no error: the year is never answered with an error.
C15_PersistFailureNonFatal ==
    [][pc = "finish" =>
          /\ artifacts' = Append(artifacts, ReturnedArtifact)
          /\ pc' \in {"meta", "done"}
          /\ pc' = "done" =>
                 /\ response'.status = 200
                 /\ response'.files = artifacts']_vars

\* witness of C15: an artifact with data rows was returned and delivered
\* although its file was not written
C15_Witness ==
    /\ pc = "done" /\ response.status = 200
    /\ Len(artifacts) = 1
    /\ artifacts[1].filename \notin saved
    /\ Len(artifacts[1].rows) = 2
    /\ response.files = artifacts

\* the requested years that did not validate, in the order requested
YearsNotValid == SelectSeq(years, LAMBDA y : y \notin YearsValidated("ok"))

\* C16: after the validation loop, the years whose metadata request failed
\* or whose tokens resolved to nothing are reported together in one 400
\* response, in ascending order; a year that resolved to a non-empty set
\* is not named, and without such years no 400 is answered.
C16_BadYearsReported ==
    (pc # "validate" /\ tables # <<>>) =>
        /\ YearsNotValid # <<>> =>
               /\ response = ErrorResponse(400, YearsNotValid)
               /\ \A i \in 1..Len(response.years) : \A j \in 1..Len(response.years) :
                      i < j => response.years[i] < response.years[j]
               /\ Range(response.years) \cap YearsValidated("ok") = {}
               /\ Range(response.years)
                      = YearsValidated("error") \cup YearsValidated("empty")
        /\ YearsNotValid = <<>> => response.status # 400

\* witness of C16: of two requested years the first validated and the
\* second, whose metadata request failed, is the only year reported
C16_Witness ==
    /\ response.status = 400
    /\ years = <<2022, 2023>>
    /\ response.years = <<2023>>
    /\ YearsValidated("ok") = {2022}
    /\ YearsValidated("error") = {2023}

\* the data requests sent for the year being built, in the order sent
RequestsOfYear == SelectSeq(data_requests, LAMBDA q : q.year = years[yi])

\* C17: the sorted resolved variables are split into consecutive batches
\* of at most 45, all but the last of exactly 45 and none empty, whose
\* concatenation is the sorted list; one data request is sent per batch,
\* in batch order, so every variable is requested exactly once.
C17_BatchesPartition ==
    (pc \in {"fetch", "finish"}) =>
        LET sorted == SortedSet(Range(resolved))
            reqs   == RequestsOfYear
        IN  /\ Join(batches, <<>>) = sorted
            /\ \A b \in 1..Len(batches) :
                   /\ Len(batches[b]) >= 1
                   /\ Len(batches[b]) <= 45
                   /\ b < Len(batches) => Len(batches[b]) = 45
            /\ Len(reqs) = bi - 1
            /\ pc = "finish" => Len(reqs) = Len(batches)
            /\ \A i \in 1..Len(reqs) :
                   reqs[i].batch = i /\ reqs[i].get = <<NAME>> \o batches[i]
            /\ pc = "finish" =>
                   \A v \in Range(resolved) :
                      Cardinality({p \in (1..Len(reqs)) \X (2..(BatchSize + 1)) :
                                      /\ p[2] <= Len(reqs[p[1]].get)
                                      /\ reqs[p[1]].get[p[2]] = v}) = 1

\* witness of C17: a year of more than 45 variables was fetched in two
\* requests, the first of 45 variables
C17_Witness ==
    /\ pc = "finish"
    /\ Len(resolved) > BatchSize
    /\ Len(batches) = 2
    /\ Len(batches[1]) = BatchSize
    /\ Len(RequestsOfYear) = 2
    /\ Len(RequestsOfYear[2].get) = 1 + Len(resolved) - BatchSize

(***************************************************************************)
(* Properties of the derived columns and the display labels                *)
(***************************************************************************)
\* a spec that is applied, whose output is not recomputed by a later spec
\* and whose operands are no spec's output
SettledSpec(n) ==
    LET calc == calculations[n]
    IN  /\ calc.numerator \in Range(headers_all)
        /\ calc.denominator \in Range(headers_all)
        /\ \A m \in 1..Len(calculations) :
              /\ calculations[m].name \notin {calc.numerator, calc.denominator}
              /\ (m > n => calculations[m].name # calc.name)

\* the stored value out is the fraction p/q
IsFraction(out, p, q) == out.k \in {"int", "float"} /\ out.n * q = p * out.d

\* the stored value out is what the operator gives for a/b and c/d
AppliedTo(operator, out, a, b, c, d) ==
    CASE operator = "mul" -> IsFraction(out, a * c, b * d)
      [] operator = "add" -> IsFraction(out, a * d + c * b, b * d)
      [] operator = "sub" -> IsFraction(out, a * d - c * b, b * d)
      [] OTHER -> IF c = 0 THEN IsFraction(out, 0, 1) ELSE IsFraction(out, a * d, b * c)

\* C18 as stated: an operand that is absent or does not parse as a number
\* counts as zero, and the operator is applied to the two coerced operands.
C18_OperandsCoerced ==
    [][pc = "finish" =>
          \A n \in 1..Len(calculations) :
             SettledSpec(n) =>
               \A i \in 1..Len(rows_index) :
                  LET calc == calculations[n]
                      num  == Coerce(Get(rows_index[i].rec, calc.numerator, IntV(0)))
                      den  == Coerce(Get(rows_index[i].rec, calc.denominator, IntV(0)))
                  IN  AppliedTo(calc.operator, rows_index'[i].rec[calc.name],
                                IF num.ok THEN num.n ELSE 0, IF num.ok THEN num.d ELSE 1,
                                IF den.ok THEN den.n ELSE 0, IF den.ok THEN den.d ELSE 1)]_vars

\* C18: an operand that is absent, null or empty counts as zero and the
\* operator is applied; when either operand holds a text that does not
\* parse as a number, the value stored under the output name is 0 whatever
\* the operator and the other operand.
C18_UnparseableGivesZero ==
    [][pc = "finish" =>
          \A n \in 1..Len(calculations) :
             SettledSpec(n) =>
               \A i \in 1..Len(rows_index) :
                  LET calc == calculations[n]
                      num  == Coerce(Get(rows_index[i].rec, calc.numerator, IntV(0)))
                      den  == Coerce(Get(rows_index[i].rec, calc.denominator, IntV(0)))
                      out  == rows_index'[i].rec[calc.name]
                  IN  IF num.ok /\ den.ok
                      THEN AppliedTo(calc.operator, out, num.n, num.d, den.n, den.d)
                      ELSE out = IntV(0)]_vars

\* witness of C18: under + a row with numerator "x" and denominator 5 got
\* 0, and a row with a null numerator and denominator -2 got -2
C18_Witness ==
    /\ pc = "done" /\ response.status = 200
    /\ calculations = <<RatioAdd>>
    /\ Len(rows_index) = 2
    /\ rows_index[1].rec[Numerator] = StrV(<<"x">>)
    /\ rows_index[1].rec[Denominator] = StrV(<<"5">>)
    /\ rows_index[1].rec[Ratio] = IntV(0)
    /\ rows_index[2].rec[Numerator] = NoneV
    /\ rows_index[2].rec[Ratio] = FloatV(-2, 1)

\* the specs that are applied and write the output name f (no spec of the
\* requests writes an operand of another spec)
SpecsWriting(f) ==
    {n \in 1..Len(calculations) :
        /\ calculations[n].name = f
        /\ calculations[n].numerator \in Range(headers_all)
        /\ calculations[n].denominator \in Range(headers_all)}

\* C19: after the specs are processed the header list holds every output
\* name at most once, an output name that was a header already is not
\* appended again; when several valid specs share an output name, every
\* row holds under that name the value computed by the last of them.
C19_LastSpecWins ==
    [][pc = "finish" =>
          /\ \A i \in 1..Len(headers_all') : \A j \in 1..Len(headers_all') :
                 i # j => headers_all'[i] # headers_all'[j]
          /\ SubSeq(headers_all', 1, Len(headers_all)) = headers_all
          /\ \A n \in 1..Len(calculations) :
                 LET calc == calculations[n]
                     last == CHOOSE m \in SpecsWriting(calc.name) :
                                \A k \in SpecsWriting(calc.name) : k <= m
                     spec == calculations[last]
                 IN  SpecsWriting(calc.name) # {} =>
                       /\ calc.name \in Range(headers_all')
                       /\ \A i \in 1..Len(rows_index) :
                              rows_index'[i].rec[calc.name]
                                 = CalcRecord(rows_index[i].rec, spec)[calc.name]]_vars

\* witness of C19: two valid specs wrote the same output name; the header
\* list holds it once and the rows hold the sum the second spec computes,
\* not the quotient of the first
C19_Witness ==
    /\ pc = "done" /\ response.status = 200
    /\ calculations = <<RatioDiv, RatioAdd>>
    /\ Cardinality({i \in 1..Len(headers_all) : headers_all[i] = Ratio}) = 1
    /\ rows_index[1].rec[Denominator] = StrV(<<"4">>)
    /\ rows_index[1].rec[Ratio] = FloatV(14, 1)

\* the text a column is labelled from: the catalog label of a known
\* variable id, the field name otherwise
LabelSource(f) ==
    IF f \in DOMAIN variables_meta /\ variables_meta[f] # <<>>
    THEN variables_meta[f] ELSE f

\* a text without its last character when that is a colon
WithoutTrailingColon(s) ==
    IF s # <<>> /\ s[Len(s)] = ":" THEN SubSeq(s, 1, Len(s) - 1) ELSE s

\* the columns of the delivered artifact that are neither geography
\* fields nor NAME
LabelledColumns ==
    {j \in 1..Len(artifacts[1].fields) :
        artifacts[1].fields[j] \notin Range(GeoLevels) \cup {NAME}}

OccursIn(word, text) ==
    \E i \in 1..(Len(text) - Len(word) + 1) :
        \A k \in 1..Len(word) : CaseFold(text[i + k - 1]) = CaseFold(word[k])

\* word is a substring of the label, the concept, the id or the group
HoldsWord(row, word) ==
    \/ OccursIn(word, row.name)
    \/ OccursIn(word, row.concept)
    \/ OccursIn(word, row.id)
    \/ OccursIn(word, row.group_name)

\* the places of the last result whose row does not hold the whole phrase
FillPlaces == {i \in 1..Len(search_results) : ~MatchesPhrase(search_results[i])}

\* the last result has at most limit rows and no id twice, and the rows
\* after the phrase matches are ordered by label
FilledWithinLimit ==
    /\ Len(search_results) <= searched.limit
    /\ \A i \in 1..Len(search_results) : \A j \in 1..Len(search_results) :
           i # j => search_results[i].id # search_results[j].id
    /\ \A i \in FillPlaces : \A j \in FillPlaces :
           i < j => ~StrLess(search_results[j].name, search_results[i].name)

\* row holds every word of the last search: as a substring, or as the
\* pattern %word% of LIKE
HoldsEveryWord(row, substring) ==
    \A k \in 1..Len(SplitWords(searched.term)) :
        IF substring
        THEN HoldsWord(row, SplitWords(searched.term)[k])
        ELSE AnyColumnLike(row, Around(SplitWords(searched.term)[k]))

\* the last result is filled from the rows that hold every word: every row
\* after the phrase matches is one of them, and the result stops short of
\* the limit only when no phrase match and no such row is left out
FilledFromWords(substring) ==
    /\ \A i \in FillPlaces : HoldsEveryWord(search_results[i], substring)
    /\ Len(search_results) < searched.limit
           => \A row \in variables_table :
                  (MatchesPhrase(row) \/ HoldsEveryWord(row, substring))
                      => \E i \in 1..Len(search_results) :
                             search_results[i].id = row.id

\* the last call was search_variables with a term of one or more words
SearchedWords ==
    /\ searched # <<>>
    /\ SplitWords(searched.term) # <<>>

\* C21: when the phrase pass returns fewer than limit rows, the result is
\* filled with rows not already returned in which every query word occurs
\* as a substring of the label, the concept, the id or the group, ordered
\* by label; the result never exceeds limit rows and never holds the same
\* id twice.
C21_FilledWithSubstringRows ==
    SearchedWords => (FilledWithinLimit /\ FilledFromWords(TRUE))

\* the same with the words matched as LIKE matches them: _ in a word stands
\* for any one character and % for any run of characters
C21_FilledWithLikeRows ==
    SearchedWords => (FilledWithinLimit /\ FilledFromWords(FALSE))

\* "income  HOUSEHOLD" matches no row as a phrase and the two rows holding
\* both words are returned in the order of their labels
C21_Witness ==
    /\ searched # <<>> /\ searched.term = QWords /\ searched.limit = 2
    /\ Cardinality({r \in variables_table : HoldsEveryWord(r, TRUE)}) = 3
    /\ Len(search_results) = 2
    /\ FillPlaces = {1, 2}
    /\ search_results[1].name = IncomeBySize
    /\ search_results[2].name = IncomeBySize
    /\ search_results[1].id # search_results[2].id

\* "income b_9013" returned B19013_001E, which holds no "b_9013"
C21_WildcardRow ==
    /\ searched # <<>> /\ searched.term = QWild
    /\ Len(search_results) = 1
    /\ search_results[1].id = VarId(B19013, 1, <<"E">>)
    /\ ~HoldsEveryWord(search_results[1], TRUE)

\* C22: every operation of ACSDatabase (init, refresh, search, detail
\* lookup, group lookup, stats) closes the connection it opened before it
\* returns, on every return path, a search with an empty or whitespace-only
\* query included: no connection stays open across operations.
C22_EveryOperationCloses == open_conns = 0

\* search_variables("  ") returned [] and its connection is still open
C22_LeftOpenByBlankSearch ==
    /\ open_conns = 1
    /\ searched # <<>> /\ searched.term = QBlank
    /\ search_results = <<>>

\* every call but a search without words leaves the number of open
\* connections as it found it
C22_OtherOperationsClose ==
    [][open_conns' # open_conns
          => (searched' # <<>> /\ SplitWords(searched'.term) = <<>>)]_vars

\* the catalog requests of the download request for year y
FetchesOf(y) == {i \in 1..Len(meta_requests) : meta_requests[i] = y}

\* C23: within one download request the variable catalog of each requested
\* year is fetched exactly once, and the catalog the year was validated
\* against is the catalog its artifact is built from.
C23_CatalogFetchedOnce ==
    /\ \A i \in 1..Len(validated) : Cardinality(FetchesOf(validated[i].year)) = 1
    /\ pc \in {"fetch", "finish"} => variables_meta = validated[yi].meta

\* the catalog of the year being built was requested a second time
C23_FetchedTwice ==
    /\ pc = "fetch"
    /\ Cardinality(FetchesOf(years[yi])) = 2

\* the year was validated against a catalog that holds the requested
\* tables; build_csv_for_year fetched another, which does not hold them,
\* and the request was answered 502
C23_BuiltFromOtherCatalog ==
    /\ pc = "done" /\ response.status = 502
    /\ validated[yi].year = years[yi] /\ validated[yi].outcome = "ok"
    /\ Cardinality(FetchesOf(years[yi])) = 2
    /\ variables_meta # validated[yi].meta
    /\ resolve_requested_variables(variables_meta, tables, include_moe) = <<>>

\* a year is requested once when it is validated and at most once more,
\* when it is built
C23_FetchedPerStage ==
    \A i \in 1..Len(validated) :
        /\ Cardinality(FetchesOf(validated[i].year)) \in {1, 2}
        /\ Cardinality(FetchesOf(validated[i].year)) = 2
               => /\ Len(validated) = Len(years)
                  /\ \A k \in 1..Len(validated) : validated[k].outcome = "ok"
                  /\ i <= yi

\* the batches of a log whose request and parsing raised nothing
Succeeded(log) == {i \in 1..Len(log) : log[i].outcome \in {"ok", "short"}}

\* the values the batches that succeeded hold for a county
ValuesOf(log, c) ==
    UNION {{<<v, log[i].batch_data[c][v]>> : v \in DOMAIN log[i].batch_data[c]} :
              i \in {k \in Succeeded(log) : c \in DOMAIN log[k].batch_data}}

\* data is the union of the values of the batches that succeeded
UnionOfSucceeded(data, log) ==
    /\ DOMAIN data = UNION {DOMAIN log[i].batch_data : i \in Succeeded(log)}
    /\ \A c \in DOMAIN data :
           {<<v, data[c][v]>> : v \in DOMAIN data[c]} = ValuesOf(log, c)

\* all_data as every skipped batch of the log found it and left it
SkippedLeaveData(log) ==
    \A i \in (1..Len(log)) \ Succeeded(log) :
        log[i].all_data = IF i = 1 THEN <<>> ELSE log[i - 1].all_data

\* the last collect_county_data call went through every batch of its
\* var_list and returned the union of the batches that succeeded
EveryBatchTried ==
    /\ ~county_data.raised
    /\ Len(county_data.batches) = NumBatches(county_data.var_list)
    /\ \A i \in 1..Len(county_data.batches) : county_data.batches[i].batch = i
    /\ UnionOfSucceeded(county_data.data, county_data.batches)

\* C24: in collect_county_data of both collectors a batch whose request or
\* parsing fails is skipped: the data merged from the earlier batches is
\* unchanged, every later batch is still requested, and the data returned
\* is the union of the values of the batches that succeeded.
C24_FailedBatchSkipped ==
    /\ SkippedLeaveData(batch_log)
    /\ county_data # <<>> => EveryBatchTried

\* the same, but for a BatchACSCollector without a key left: its call
\* raises at the next batch and returns nothing
C24_SkippedWhileKeysLast ==
    /\ SkippedLeaveData(batch_log)
    /\ county_data # <<>> =>
          IF county_data.raised
          THEN collector = "batch" /\ KeysExhausted(api_keys, current_key_index)
          ELSE EveryBatchTried

\* the first batch of B01001 failed and the second was merged and returned
C24_Witness ==
    /\ county_data # <<>> /\ ~county_data.raised
    /\ Len(county_data.batches) = 2
    /\ county_data.batches[1].outcome = "error"
    /\ county_data.batches[2].outcome = "ok"
    /\ DOMAIN county_data.data = {Chatham}
    /\ VarId(B01001, GroupLines, <<"E">>) \in DOMAIN county_data.data[Chatham]
    /\ VarId(B01001, 1, <<"E">>) \notin DOMAIN county_data.data[Chatham]

\* the first batch of a BatchACSCollector failed, its request having used
\* up the last key, and the second batch was never requested
C24_LaterBatchNotRequested ==
    /\ county_data # <<>> /\ county_data.raised
    /\ Len(county_data.batches) = 1
    /\ county_data.batches[1].outcome = "error"
    /\ NumBatches(var_list) = 2

\* a step of ComprehensiveACSCollector that calls make_request
ComprehensiveRequest ==
    collector = "comprehensive" /\ step \in {"discover", "variables", "batch"}

\* C25: requests_made of ComprehensiveACSCollector never exceeds
\* max_requests_per_day: at the ceiling make_request raises, sending
\* nothing and leaving the counter, and below the ceiling it adds exactly
\* one to the counter, whether the request it sends succeeds or fails.
C25_CeilingNeverExceeded ==
    /\ [](collector = "comprehensive" => requests_made <= max_requests_per_day)
    /\ [][ComprehensiveRequest =>
            IF requests_made >= max_requests_per_day
            THEN requests_made' = requests_made /\ sent' = sent
            ELSE /\ requests_made' = requests_made + 1
                 /\ Len(sent') = Len(sent) + 1
                 /\ SubSeq(sent', 1, Len(sent)) = sent]_vars

\* the ceiling was reached by the requests for the groups and for the
\* variables of B01001, and both batches of the table were refused
C25_Witness ==
    /\ collector = "comprehensive"
    /\ requests_made = max_requests_per_day
    /\ Len(sent) = max_requests_per_day
    /\ county_data # <<>>
    /\ Len(county_data.batches) = 2
    /\ \A i \in 1..2 : county_data.batches[i].outcome = "limit"

\* the data requests of `sent` that carried the key
DataRequestsWith(key) ==
    {i \in 1..Len(sent) : sent[i].kind = "data" /\ sent[i].key = key}

\* no key carried more data requests than the ceiling
DataRequestsPerKey ==
    \A key \in Range(api_keys) :
        Cardinality(DataRequestsWith(key)) <= max_requests_per_day

\* every data request carried the key that was current when make_request
\* sent it
SentWithCurrentKey ==
    \A i \in 1..Len(sent) :
        sent[i].kind = "data" =>
            /\ ~KeysExhausted(api_keys, sent[i].current_key_index)
            /\ sent[i].key = get_current_api_key(api_keys, sent[i].current_key_index)

\* C26: BatchACSCollector sends no more than max_requests_per_day data
\* requests with one API key: at the ceiling it switches to the next key
\* and resets the counter, and the request that triggered the switch is
\* sent with the new key, not with the exhausted one.
C26_SwitchedBeforeSending ==
    collector = "batch" => DataRequestsPerKey /\ SentWithCurrentKey

\* the count alone: no key carried more data requests than the ceiling
C26_CeilingPerKey ==
    collector = "batch" => DataRequestsPerKey

\* the data request that made the collector switch from the first key to
\* the second was sent with the first
C26_SentWithExhaustedKey ==
    /\ collector = "batch" /\ Len(api_keys) = 2
    /\ \E i \in 1..Len(sent) :
          /\ sent[i].kind = "data"
          /\ sent[i].current_key_index = 1 /\ sent[i].requests_made = 1
          /\ sent[i].key = api_keys[1]

\* the requests of `sent` that went out when no key was left
SentWithoutKeyLeft ==
    {i \in 1..Len(sent) : KeysExhausted(api_keys, sent[i].current_key_index)}

\* C27: once every API key of BatchACSCollector is exhausted
\* (current_key_index has reached the number of keys) no further remote
\* request is issued, and the collection stops with the error
\* 'All API keys exhausted' instead of going on through the remaining
\* tables and years.
C27_StopsWhenKeysExhausted ==
    collector = "batch" =>
        /\ SentWithoutKeyLeft = {}
        /\ KeysExhausted(api_keys, current_key_index) => step = "raised"

\* the keys ran out in the first year, requests went on being sent through
\* the tables and the second year, and the run ended without an error
C27_WentOnWithoutKeys ==
    /\ collector = "batch" /\ step = "finished"
    /\ current_key_index > Len(api_keys)
    /\ \E i \in SentWithoutKeyLeft : sent[i].kind = "groups"
    /\ \E i \in SentWithoutKeyLeft : sent[i].kind = "variables"
    /\ \E i \in SentWithoutKeyLeft : sent[i].kind = "data"

\* the records acs_data holds for a variable, a county and a year
RecordsOf(variable_id, county_name, year) ==
    LET rows == {r \in BagToSet(acs_data) :
                    /\ r.variable_id = variable_id
                    /\ r.county_name = county_name
                    /\ r.year = year}
    IN  BagCardinality([r \in rows |-> CopiesIn(r, acs_data)])

\* the variables, counties and years acs_data holds a record of
StoredKeys ==
    {<<r.variable_id, r.county_name, r.year>> : r \in BagToSet(acs_data)}

\* C28: collecting a table for a year that was collected before creates no
\* second acs_data record for a variable, a county and a year: after any
\* runs the store holds at most one record of each, so that a lookup of a
\* value by variable, year and county is unambiguous.
C28_OneRecordPerKey ==
    \A key \in StoredKeys : RecordsOf(key[1], key[2], key[3]) <= 1

\* a second run collected B19013 for a year the first run had collected,
\* and the store holds two records of B19013_001E for Chatham in that year
C28_CollectedTwice ==
    /\ runs = 2
    /\ \E y \in {2017, 2023} :
          RecordsOf(VarId(B19013, 1, <<"E">>), Chatham, y) = 2

\* the list parse_years returned
YearsOut == parsed_years.out

\* the parts of the string parse_years was called with
PartsRead ==
    IF years_value.k \in {"int", "none"} THEN <<>>
    ELSE Split(strip(PyStr(years_value)), ",")

\* the part is a range or a year that int() reads and that holds y
Covers(raw, y) ==
    LET part == strip(raw)
    IN  IF part = <<>> THEN FALSE
        ELSE IF Contains(part, "-")
        THEN LET ab == SplitOnce(part, "-")
                 a  == ParseInt(strip(ab[1]))
                 b  == ParseInt(strip(ab[2]))
             IN  /\ a.ok /\ b.ok
                 /\ Min(a.n, b.n) <= y /\ y <= IF a.n > b.n THEN a.n ELSE b.n
        ELSE ParseInt(part).ok /\ ParseInt(part).n = y

\* the list is not empty and strictly ascending
NonEmptyAscending(out) ==
    /\ Len(out) >= 1
    /\ \A i \in 1..(Len(out) - 1) : out[i] < out[i + 1]

\* the years are in 2010..2099, or the list is the default year alone
InRangeOrDefault(out) ==
    \/ out = <<DefaultYear>>
    \/ \A i \in 1..Len(out) : 2010 <= out[i] /\ out[i] <= 2099

\* every year of 2010..2099 that a part holds is returned, and a year is
\* returned only when a part holds it or the list is the default
PartsContribute(out) ==
    /\ \A i \in 1..Len(PartsRead) : \A y \in 2010..2099 :
           Covers(PartsRead[i], y) => y \in Range(out)
    /\ \/ out = <<DefaultYear>>
       \/ years_value.k = "int"
       \/ \A y \in Range(out) : \E i \in 1..Len(PartsRead) : Covers(PartsRead[i], y)

\* C29: parse_years returns, for every value, a non-empty strictly
\* ascending list of integer years, every one in 2010..2099 unless the
\* list is the default year alone; a range a-b contributes every year from
\* min(a, b) to max(a, b), and the parts that cannot be read are ignored.
C29_YearsInRange ==
    parsed_years # <<>> =>
        /\ NonEmptyAscending(YearsOut)
        /\ InRangeOrDefault(YearsOut)
        /\ PartsContribute(YearsOut)

\* the same of every value that is not an integer
C29_InRangeUnlessInteger ==
    (parsed_years # <<>> /\ years_value.k # "int") =>
        /\ NonEmptyAscending(YearsOut)
        /\ InRangeOrDefault(YearsOut)
        /\ PartsContribute(YearsOut)

\* the integer 1999 was returned as a year
C29_IntegerOutOfRange ==
    /\ years_value = IntV(1999)
    /\ parsed_years # <<>> /\ YearsOut = <<1999>>

\* the string 1999,2009 - 2011 gave the years 2010 and 2011
C29_StringFiltered ==
    /\ years_value.k = "str"
    /\ Split(years_value.s, ",")[1] = <<"1", "9", "9", "9">>
    /\ parsed_years # <<>> /\ YearsOut = <<2010, 2011>>

\* the text names the year, in any case of its letters
NamesYear(text, y) == OccursIn(IntStr(y), text)

\* the text names the county
NamesCounty(text, c) == OccursIn(c, text)

\* the years the first message of the history that names a year names
HistoryYears ==
    {y \in Range(ChatYears) :
        \E i \in 1..Len(conversation_history) :
            /\ NamesYear(conversation_history[i], y)
            /\ \A j \in 1..(i - 1) : \A z \in Range(ChatYears) :
                   ~NamesYear(conversation_history[j], z)}

\* the counties the first message of the history that names a county names
HistoryCounties ==
    {c \in {Chatham, Liberty, Bryan, Effingham} :
        \E i \in 1..Len(conversation_history) :
            /\ NamesCounty(conversation_history[i], c)
            /\ \A j \in 1..(i - 1) : \A d \in {Chatham, Liberty, Bryan, Effingham} :
                   ~NamesCounty(conversation_history[j], d)}

QuestionNamesNoYear == \A y \in Range(ChatYears) : ~NamesYear(question, y)

QuestionNamesNoCounty ==
    \A c \in {Chatham, Liberty, Bryan, Effingham} : ~NamesCounty(question, c)

\* the handler came to its prompt
Prompted == chat # <<>> /\ chat.outcome = "prompt"

\* C30: when the question of ask_chatgpt names no year (no county) and a
\* message of the conversation history does, the lookup of the data
\* values and the CURRENT REQUEST of the prompt use the year (the county)
\* of the history, not the defaults 2023 and Chatham.
C30_ContextFromHistory ==
    Prompted =>
        /\ (QuestionNamesNoYear /\ HistoryYears # {}) =>
              /\ chat.lookup.year \in HistoryYears
              /\ chat.prompt.year \in HistoryYears
        /\ (QuestionNamesNoCounty /\ HistoryCounties # {}) =>
              /\ chat.lookup.county_name \in HistoryCounties
              /\ chat.prompt.county \in HistoryCounties

\* what the question itself names is used, the defaults otherwise
C30_ContextFromQuestionOnly ==
    Prompted =>
        /\ chat.lookup.year = chat.prompt.year
        /\ chat.lookup.county_name = chat.prompt.county
        /\ IF QuestionNamesNoYear THEN chat.lookup.year = 2023
           ELSE NamesYear(question, chat.lookup.year)
        /\ IF QuestionNamesNoCounty THEN chat.lookup.county_name = Chatham
           ELSE NamesCounty(question, chat.lookup.county_name)

\* the history asked for Liberty and then for 2019, the question names
\* neither, and the values of Chatham in 2023 were looked up
C30_HistoryDropped ==
    /\ Prompted
    /\ question = <<"h", "o", "w", " ", "d", "i", "d", " ", "p", "o", "v", "e", "r", "t", "y", " ", "c", "h", "a", "n", "g", "e", " ", "t", "h", "e", "r", "e", "?">>
    /\ conversation_history = <<<<"m", "e", "d", "i", "a", "n", " ", "h", "o", "u", "s", "e", "h", "o", "l", "d", " ", "i", "n", "c", "o", "m", "e", " ", "i", "n", " ", "l", "i", "b", "e", "r", "t", "y", " ", "c", "o", "u", "n", "t", "y">>,
                                <<"s", "h", "o", "w", " ", "m", "e", " ", "2", "0", "1", "9", " ", "d", "a", "t", "a">>>>
    /\ chat.lookup = [year |-> 2023, county_name |-> Chatham]
    /\ chat.prompt = [county |-> Chatham, year |-> 2023]

====
